---- MODULE Spec2Model ----
(***************************************************************************)
(* A model of mlargparser: the command registry of a tree node, the        *)
(* per-command argument schema, and the recursive multi-level dispatch of  *)
(* an argument vector (src/mlargparser.py).                                *)
(*                                                                         *)
(* Text is modelled as a sequence of one-character strings, so that name   *)
(* normalisation, option spelling and value conversion are computed the    *)
(* way the code computes them.                                             *)
(***************************************************************************)
EXTENDS Integers, Sequences, FiniteSets, TLC

(***************************************************************************)
(* Bounds of the explored inputs.                                          *)
(***************************************************************************)
MaxTail == 4
MaxFlagTokens == 3
MaxListTokens == 5
MaxParams == 2
MaxMembers == 2
MaxAdapterCalls == 3
MaxDefaultTokens == 2
MaxBuildCalls == 3

(***************************************************************************)
(* Characters and text.                                                    *)
(***************************************************************************)
\* the characters in use, in code-point order ("-" < digits < upper < "_" < lower)
CharOrder ==
    << "-", "0", "1", "2", "3", "4", "5", "6", "7", "8", "9",
       "A", "B", "C", "D", "E", "F", "G", "H", "I", "J", "K", "L", "M",
       "N", "O", "P", "Q", "R", "S", "T", "U", "V", "W", "X", "Y", "Z",
       "_",
       "a", "b", "c", "d", "e", "f", "g", "h", "i", "j", "k", "l", "m",
       "n", "o", "p", "q", "r", "s", "t", "u", "v", "w", "x", "y", "z" >>

IndexIn(table, c) == CHOOSE i \in 1..Len(table) : table[i] = c

\* the position of a character in the code-point order
Ord(c) == IndexIn(CharOrder, c)

IsDigit(c) == Ord(c) \in 2..11

\* str.lower() on one character: the upper-case letters stand 27 places
\* before their lower-case forms
LowerAt(table, n, c) == IF n \in 12..37 THEN table[n + 27] ELSE c

LowerChar(c) == LowerAt(CharOrder, Ord(c), c)

\* str.replace(old, new) for one-character old and new
Replace(s, old, new) == [i \in 1..Len(s) |-> IF s[i] = old THEN new ELSE s[i]]

Lower(s) == [i \in 1..Len(s) |-> LowerChar(s[i])]

\* str.startswith
StartsWith(s, p) == Len(s) >= Len(p) /\ SubSeq(s, 1, Len(p)) = p

\* s[n:]
DropPrefix(s, n) == SubSeq(s, n + 1, Len(s))

\* a slice that takes its bounds for positions counted from one
PySliceFromOne(s, lo, hi) ==
    SubSeq(s, lo, IF hi < Len(s) THEN hi ELSE Len(s))

\* Python's sequence slice s[lo:hi] for 0 <= lo <= hi (0-based, hi exclusive)
PySlice(s, lo, hi) ==
    SubSeq(s, lo + 1, IF hi < Len(s) THEN hi ELSE Len(s))

\* s < t in the code-point order used by sorted() and dir()
RECURSIVE StrLess(_, _)
StrLess(s, t) ==
    IF t = <<>> THEN FALSE
    ELSE IF s = <<>> THEN TRUE
    ELSE IF s[1] # t[1] THEN Ord(s[1]) < Ord(t[1])
    ELSE StrLess(Tail(s), Tail(t))

(***************************************************************************)
(* Values: tagged, so that values of different Python types compare.       *)
(***************************************************************************)
PEmpty == [k |-> "empty", v |-> 0]          \* inspect.Parameter.empty
PNone == [k |-> "none", v |-> 0]            \* None
PBool(b) == [k |-> "bool", v |-> b]
PStr(s) == [k |-> "str", v |-> s]
PInt(n) == [k |-> "int", v |-> n]
PList(l) == [k |-> "list", v |-> l]
PTuple(l) == [k |-> "tuple", v |-> l]

\* Python truthiness of a value (`if not func_args[key]`)
Truthy(x) ==
    CASE x.k = "none" -> FALSE
      [] x.k = "bool" -> x.v
      [] x.k = "int" -> x.v # 0
      [] x.k \in {"str", "list", "tuple"} -> Len(x.v) > 0
      [] OTHER -> TRUE

(***************************************************************************)
(* Declared types (annotations).                                           *)
(*   k = "empty"    no annotation                                          *)
(*   k = "none"     the annotation None                                    *)
(*   k = "type"     a plain class t (bool, int, str, list, dict, ...)      *)
(*   k = "generic"  origin t with type parameters args (List[str], ...)    *)
(*   k = "union"    Union[args]; Optional[T] is Union[T, NoneType]         *)
(*   k = "string"   a textual annotation naming t                          *)
(*   k = "value"    an object that is neither a type nor callable          *)
(***************************************************************************)
AnnEmpty == [k |-> "empty", t |-> "", args |-> <<>>]
AnnNone == [k |-> "none", t |-> "", args |-> <<>>]
Ty(t) == [k |-> "type", t |-> t, args |-> <<>>]
Generic(t, args) == [k |-> "generic", t |-> t, args |-> args]
Union(args) == [k |-> "union", t |-> "Union", args |-> args]
Optional(a) == Union(<<a, Ty("NoneType")>>)
StrAnn(t) == [k |-> "string", t |-> t, args |-> <<>>]
AnnValue == [k |-> "value", t |-> "", args |-> <<>>]

\* typing.get_origin: "" stands for None
get_origin(a) == IF a.k \in {"generic", "union"} THEN a.t ELSE ""

get_args(a) == IF a.k \in {"generic", "union"} THEN a.args ELSE <<>>

\* [arg for arg in args if arg is not type(None)]
non_none_args(args) == SelectSeq(args, LAMBDA a : a # Ty("NoneType"))

\* the names the builtins module resolves to a type usable as a parser
BuiltinTypes == {"bool", "int", "str", "float", "list", "tuple", "dict", "set"}

AST_TYPES == {"list", "tuple", "dict", "set"}

\* whether the non-None type parameters are the single parameter bool
OnlyBool(non_none) == Len(non_none) = 1 /\ non_none[1] = Ty("bool")

is_bool_type(a) ==
    \/ a = Ty("bool")
    \/ get_origin(a) # "" /\ OnlyBool(non_none_args(get_args(a)))

\* a validation that accepts a text naming a built-in type
is_valid_annotation_resolving(a) ==
    CASE a.k \in {"empty", "none"} -> ""
      [] a.k = "string" -> IF a.t \in BuiltinTypes THEN "" ELSE "string_annotation"
      [] a.k = "value" -> "not_callable"
      [] OTHER -> ""

\* "" when the annotation is valid, otherwise the kind of the error message
is_valid_annotation(a) ==
    CASE a.k \in {"empty", "none"} -> ""
      [] a.k = "string" -> "string_annotation"
      [] a.k = "value" -> "not_callable"
      [] OTHER -> ""

normalize_annotation(a) == IF a.k \in {"empty", "none"} THEN Ty("str") ELSE a

\* [is, element]: whether the annotation is a list/set/tuple collection and,
\* if so, its element type
RECURSIVE is_collection_type(_)
\* a collection test that does not look inside an optional
CollectionOfUnwrapped(a, non_none) ==
    IF a.k = "generic" /\ a.t \in {"list", "set", "tuple"}
    THEN [is |-> TRUE, element |-> IF a.args # <<>> THEN a.args[1] ELSE Ty("str")]
    ELSE [is |-> FALSE, element |-> AnnEmpty]

CollectionOf(a, non_none) ==
    IF a.k = "union" /\ non_none # <<>>
    THEN is_collection_type(non_none[1])
    ELSE IF a.k = "generic" /\ a.t \in {"list", "set", "tuple"}
    THEN [is |-> TRUE, element |-> IF a.args # <<>> THEN a.args[1] ELSE Ty("str")]
    ELSE [is |-> FALSE, element |-> AnnEmpty]

is_collection_type(a) == CollectionOf(a, non_none_args(a.args))

\* the parser a declared type resolves to; "ValueError" when resolution fails
RECURSIVE normalize_type_annotation(_)
NormalizedType(a, non_none) ==
    CASE a.k \in {"empty", "none"} -> "str"
      [] a.k = "string" ->
            IF a.t \in BuiltinTypes THEN normalize_type_annotation(Ty(a.t))
            ELSE "ValueError"
      [] a.k = "union" /\ non_none # <<>> ->
            normalize_type_annotation(non_none[1])
      [] a.k = "generic" /\ a.t \in {"list", "set", "tuple", "dict"} ->
            IF a.args # <<>> THEN normalize_type_annotation(a.args[1])
            ELSE a.t
      [] a.k = "type" /\ a.t \in AST_TYPES -> "literal_eval"
      [] a.k = "value" -> "ValueError"
      [] OTHER -> a.t

normalize_type_annotation(a) == NormalizedType(a, non_none_args(a.args))

RECURSIVE get_parser_for_type(_)
ParserForType(a, non_none) ==
    IF a.k = "empty" THEN "str"
    ELSE IF a.k = "type" /\ a.t \in AST_TYPES THEN "literal_eval"
    ELSE IF get_origin(a) # "" /\ non_none # <<>>
    THEN get_parser_for_type(non_none[1])
    ELSE normalize_type_annotation(a)

get_parser_for_type(a) == ParserForType(a, non_none_args(get_args(a)))

(***************************************************************************)
(* CmdArg: one parameter's command-line binding.                           *)
(* A parameter is [name, ann, default]; default PEmpty when none declared. *)
(***************************************************************************)
Param(name, ann, default) == [name |-> name, ann |-> ann, default |-> default]

NoPrefix == <<"n", "o", "_">>

\* a CmdArg whose construction raised ValueError
CmdArgError(p, e) ==
    [ok |-> FALSE, name |-> p.name, ann |-> p.ann, err |-> e,
     action |-> "", required |-> FALSE, parser |-> ""]

\* __setup_collection_type and __setup_regular_type, given the parser the
\* type resolved to
SetupParsed(p, action, parser) ==
    IF parser = "ValueError" THEN CmdArgError(p, "ValueError")
    ELSE [ok |-> TRUE, name |-> p.name, ann |-> p.ann, err |-> "",
          action |-> action, required |-> p.default = PEmpty, parser |-> parser]

\* a boolean setup that takes requiredness from the default, as the others do
SetupBooleanByDefault(p) ==
    [ok |-> TRUE, name |-> p.name, ann |-> p.ann, err |-> "",
     action |-> IF StartsWith(p.name, NoPrefix) THEN "store_false" ELSE "store_true",
     required |-> p.default = PEmpty, parser |-> "None"]

\* __setup_boolean_type
SetupBoolean(p) ==
    [ok |-> TRUE, name |-> p.name, ann |-> p.ann, err |-> "",
     action |-> IF StartsWith(p.name, NoPrefix) THEN "store_false" ELSE "store_true",
     required |-> FALSE, parser |-> "None"]

\* CmdArg.__init__ after the annotation passed is_valid_annotation
CmdArgOfKind(p, coll) ==
    IF coll.is THEN SetupParsed(p, "append", get_parser_for_type(coll.element))
    ELSE IF is_bool_type(normalize_annotation(p.ann)) THEN SetupBoolean(p)
    ELSE SetupParsed(p, "store", get_parser_for_type(p.ann))

CmdArgChecked(p, bad) ==
    IF bad # "" THEN CmdArgError(p, bad) ELSE CmdArgOfKind(p, is_collection_type(p.ann))

\* CmdArg.__init__: [ok, name, ann, action, required, parser, err]
CmdArg(p) == CmdArgChecked(p, is_valid_annotation(p.ann))

\* the dest of CmdArg.get_argparse_kwargs
CmdArgDest(arg) ==
    IF is_bool_type(normalize_annotation(arg.ann)) /\ StartsWith(arg.name, NoPrefix)
    THEN DropPrefix(arg.name, 3)
    ELSE arg.name

(***************************************************************************)
(* The command registry of one tree node.                                  *)
(* A class is [members, case_sensitive_commands, strict_validation,        *)
(* auto_disable_flags]; a member is [name, kind, sig, cls] with kind       *)
(* "method" (a leaf with signature sig), "class" (a nested tree-node type  *)
(* named cls) or "data" (a non-callable attribute).                        *)
(***************************************************************************)
Method(name, sig) == [name |-> name, kind |-> "method", sig |-> sig, cls |-> ""]
SubTree(name, cls) == [name |-> name, kind |-> "class", sig |-> <<>>, cls |-> cls]
Data(name) == [name |-> name, kind |-> "data", sig |-> <<>>, cls |-> ""]

\* a normalisation that never folds the case
FoldCaseNever(case_sensitive, normalized) == normalized

\* the case folding of __normalize_command_name
FoldCase(case_sensitive, normalized) ==
    IF case_sensitive THEN normalized ELSE Lower(normalized)

\* __normalize_command_name
NormalizeCommandName(case_sensitive, name) ==
    FoldCase(case_sensitive, Replace(name, "_", "-"))

ParamNames(sig) == {sig[i].name : i \in 1..Len(sig)}

\* a check that misses the doubled disable prefix
BooleanParamErrorNoDouble(sig, i) ==
    IF ~is_bool_type(normalize_annotation(sig[i].ann)) THEN ""
    ELSE IF StartsWith(sig[i].name, NoPrefix)
            /\ DropPrefix(sig[i].name, 3) \in ParamNames(sig)
    THEN "ambiguous"
    ELSE ""

\* a check that looks for a counterpart among the boolean parameters only
BooleanParamErrorBothBoolean(sig, i) ==
    IF ~is_bool_type(normalize_annotation(sig[i].ann)) THEN ""
    ELSE IF StartsWith(sig[i].name, <<"n", "o", "_", "n", "o", "_">>)
    THEN "double_negative"
    ELSE IF StartsWith(sig[i].name, NoPrefix)
            /\ \E h \in 1..Len(sig) :
                  /\ sig[h].name = DropPrefix(sig[i].name, 3)
                  /\ is_bool_type(normalize_annotation(sig[h].ann))
    THEN "ambiguous"
    ELSE ""

\* what __validate_boolean_params raises at parameter i, "" when nothing
BooleanParamError(sig, i) ==
    IF ~is_bool_type(normalize_annotation(sig[i].ann)) THEN ""
    ELSE IF StartsWith(sig[i].name, <<"n", "o", "_", "n", "o", "_">>)
    THEN "double_negative"
    ELSE IF StartsWith(sig[i].name, NoPrefix)
            /\ DropPrefix(sig[i].name, 3) \in ParamNames(sig)
    THEN "ambiguous"
    ELSE ""

\* the error raised at parameter i, as [kind, param, base]
BooleanParamRaise(sig, i, kind) ==
    [kind |-> kind, param |-> sig[i].name,
     base |-> IF kind = "ambiguous" THEN DropPrefix(sig[i].name, 3) ELSE <<>>]

\* the loop of __validate_boolean_params from parameter i on: the first
\* error in declaration order, kind "" when the signature passes
RECURSIVE BooleanParamsFrom(_, _)
BooleanParamsAt(sig, i, kind) ==
    IF kind # "" THEN BooleanParamRaise(sig, i, kind)
    ELSE BooleanParamsFrom(sig, i + 1)

BooleanParamsFrom(sig, i) ==
    IF i > Len(sig) THEN [kind |-> "", param |-> <<>>, base |-> <<>>]
    ELSE BooleanParamsAt(sig, i, BooleanParamError(sig, i))

validate_boolean_params(sig) == BooleanParamsFrom(sig, 1)

SignatureError(attr_name, kind, param, base) ==
    [command |-> attr_name, kind |-> kind, param |-> param, base |-> base]

\* the first loop of __validate_command_signature: is_valid_annotation
AnnotationError(attr_name, p, bad) ==
    IF bad = "" THEN <<>> ELSE <<SignatureError(attr_name, bad, p.name, <<>>)>>

RECURSIVE AnnotationErrors(_, _, _)
AnnotationErrors(sig, attr_name, i) ==
    IF i > Len(sig) THEN <<>>
    ELSE AnnotationError(attr_name, sig[i], is_valid_annotation(sig[i].ann))
         \o AnnotationErrors(sig, attr_name, i + 1)

\* the second loop: a CmdArg is built for every parameter
CmdArgErrorOf(attr_name, arg) ==
    IF arg.ok THEN <<>> ELSE <<SignatureError(attr_name, arg.err, arg.name, <<>>)>>

RECURSIVE CmdArgErrors(_, _, _)
CmdArgErrors(sig, attr_name, i) ==
    IF i > Len(sig) THEN <<>>
    ELSE CmdArgErrorOf(attr_name, CmdArg(sig[i])) \o CmdArgErrors(sig, attr_name, i + 1)

\* __validate_command_signature once __validate_boolean_params has run: what
\* it raised is caught and becomes the command's only error
SignatureErrors(sig, attr_name, vb) ==
    IF vb.kind # "" THEN <<SignatureError(attr_name, vb.kind, vb.param, vb.base)>>
    ELSE AnnotationErrors(sig, attr_name, 1) \o CmdArgErrors(sig, attr_name, 1)

\* __validate_command_signature: the list of errors of one command, each
\* [command, kind, param, base]
validate_command_signature(sig, attr_name) ==
    SignatureErrors(sig, attr_name, validate_boolean_params(sig))

\* the position of the least name among the members
LeastMember(members) ==
    CHOOSE j \in 1..Len(members) :
        \A h \in 1..Len(members) : h = j \/ StrLess(members[j].name, members[h].name)

\* dir(self): the member names in sorted order, as a sequence of members
RECURSIVE SortMembers(_)
SortFrom(members, i) ==
    <<members[i]>> \o
    SortMembers(SubSeq(members, 1, i - 1) \o SubSeq(members, i + 1, Len(members)))

SortMembers(members) ==
    IF members = <<>> THEN <<>> ELSE SortFrom(members, LeastMember(members))

Dir(cls) == SortMembers(cls.members)

\* callable(attr) and not attr_name.startswith("_")
IsCommandMember(m) == m.kind \in {"method", "class"} /\ ~StartsWith(m.name, <<"_">>)

\* __record_command_collision
record_command_collision(collisions, commands, cmd_key, attr_name) ==
    [k \in DOMAIN collisions \cup {cmd_key} |->
        IF k # cmd_key THEN collisions[k]
        ELSE Append(IF cmd_key \in DOMAIN collisions THEN collisions[cmd_key]
                    ELSE <<commands[cmd_key].name>>,
                    attr_name)]

\* self.commands[cmd_key] = (attr_name, attr)
StoreCommand(commands, cmd_key, m) ==
    [k \in DOMAIN commands \cup {cmd_key} |-> IF k = cmd_key THEN m ELSE commands[k]]

\* the body of the loop of __init_commands for a command member m
RECURSIVE InitCommandsLoop(_, _, _, _, _, _)
RegisterMember(cls, attrs, i, commands, collisions, errors, m, command_errors, cmd_key) ==
    IF command_errors # <<>>
    THEN InitCommandsLoop(cls, attrs, i + 1, commands, collisions,
                          errors \o command_errors)
    ELSE InitCommandsLoop(cls, attrs, i + 1,
            StoreCommand(commands, cmd_key, m),
            IF cmd_key \in DOMAIN commands
            THEN record_command_collision(collisions, commands, cmd_key, m.name)
            ELSE collisions,
            errors)

\* the loop of __init_commands over dir(self) from position i on
InitCommandsLoop(cls, attrs, i, commands, collisions, errors) ==
    IF i > Len(attrs)
    THEN [commands |-> commands, collisions |-> collisions, errors |-> errors]
    ELSE IF ~IsCommandMember(attrs[i])
    THEN InitCommandsLoop(cls, attrs, i + 1, commands, collisions, errors)
    ELSE RegisterMember(cls, attrs, i, commands, collisions, errors, attrs[i],
            IF attrs[i].kind = "method"
            THEN validate_command_signature(attrs[i].sig, attrs[i].name)
            ELSE <<>>,
            NormalizeCommandName(cls.case_sensitive_commands, attrs[i].name))

\* a report that makes every collision fatal, whatever strict_validation says
ReportRaisedOnAnyCollision(cls, strict_types, collisions, errors) ==
    IF DOMAIN collisions # {} THEN "CollisionError"
    ELSE IF errors # <<>> /\ strict_types THEN "ValidationError"
    ELSE ""

\* a report that makes every validation error fatal, whatever strict_types says
ReportRaisedOnAnyError(cls, strict_types, collisions, errors) ==
    IF DOMAIN collisions # {} /\ cls.strict_validation THEN "CollisionError"
    ELSE IF errors # <<>> THEN "ValidationError"
    ELSE ""

\* __report_collisions and __report_validation_errors: the error raised, if any
ReportRaised(cls, strict_types, collisions, errors) ==
    IF DOMAIN collisions # {} /\ cls.strict_validation THEN "CollisionError"
    ELSE IF errors # <<>> /\ strict_types THEN "ValidationError"
    ELSE ""

Reported(cls, strict_types, r) ==
    [commands |-> r.commands, collisions |-> r.collisions, errors |-> r.errors,
     raised |-> ReportRaised(cls, strict_types, r.collisions, r.errors)]

\* __init_commands: [commands, collisions, errors, raised]
init_commands(cls, strict_types) ==
    Reported(cls, strict_types, InitCommandsLoop(cls, Dir(cls), 1, <<>>, <<>>, <<>>))

(***************************************************************************)
(* The argument schema of one command (__get_cmd_parser).                  *)
(***************************************************************************)
\* a naming that never grants a short option
OptionsGrantedLongOnly(long_option, short_option, short_options) ==
    [options |-> <<long_option>>, short_options |-> short_options]

\* the branch of __get_options_for_arg on the short-option tracker
OptionsGranted(long_option, short_option, short_options) ==
    IF short_option \notin short_options
    THEN [options |-> <<long_option, short_option>>,
          short_options |-> short_options \cup {short_option}]
    ELSE [options |-> <<long_option>>, short_options |-> short_options]

\* __get_options_for_arg: the option strings granted to a parameter name and
\* the short-option tracker afterwards
get_options_for_arg(arg, short_options) ==
    OptionsGranted(<<"-", "-">> \o Replace(arg, "_", "-"), <<"-", arg[1]>>,
                   short_options)

\* the automatic disable flag __get_arg_properties yields after a parameter
DisableFlagFor(sig, arg, auto_disable_flags) ==
    IF /\ auto_disable_flags
       /\ is_bool_type(normalize_annotation(arg.ann))
       /\ arg.default = PBool(TRUE)
       /\ (NoPrefix \o arg.name) \notin ParamNames(sig)
       /\ ~StartsWith(arg.name, NoPrefix)
    THEN <<[param |-> [arg EXCEPT !.name = NoPrefix \o arg.name],
            default_val |-> PNone]>>
    ELSE <<>>

\* __get_arg_properties: the (parameter, default_val) pairs yielded for a
\* signature, the automatic disable flag following its positive parameter
RECURSIVE get_arg_properties(_, _, _)
get_arg_properties(sig, i, auto_disable_flags) ==
    IF i > Len(sig) THEN <<>>
    ELSE <<[param |-> sig[i], default_val |-> sig[i].default]>>
         \o DisableFlagFor(sig, sig[i], auto_disable_flags)
         \o get_arg_properties(sig, i + 1, auto_disable_flags)

\* the option strings every ArgumentParser holds from its construction
HelpOptions == {<<"-", "h">>, <<"-", "-", "h", "e", "l", "p">>}

\* the default argparse gives an action that declares none
ActionDefault(action) ==
    CASE action = "store_true" -> PBool(FALSE)
      [] action = "store_false" -> PBool(TRUE)
      [] OTHER -> PNone

OptionStringsOf(actions) ==
    HelpOptions \cup UNION {{actions[j].option_strings[n] :
                                n \in 1..Len(actions[j].option_strings)} :
                            j \in 1..Len(actions)}

\* the action add_argument creates from get_argparse_kwargs
NewAction(arg, options) ==
    [option_strings |-> options,
     dest |-> CmdArgDest(arg),
     action |-> arg.action,
     required |-> arg.required,
     parser |-> arg.parser,
     default |-> ActionDefault(arg.action)]

\* defaults[arg.name] = default_val unless it is None or empty
WithDefault(defaults, name, default_val) ==
    IF default_val \notin {PNone, PEmpty}
    THEN [k \in DOMAIN defaults \cup {name} |->
            IF k = name THEN default_val ELSE defaults[k]]
    ELSE defaults

\* the loop of __get_cmd_parser over the yielded properties:
\* [status, actions, defaults, short_options]; status is "ValueError" when a
\* CmdArg cannot be built and "ArgumentError" when add_argument refuses an
\* option string the parser already holds (-h and --help included)
RECURSIVE CmdParserLoop(_, _, _, _, _)
AddArgument(props, i, actions, defaults, short_options, arg, named) ==
    IF \E n \in 1..Len(named.options) : named.options[n] \in OptionStringsOf(actions)
    THEN [status |-> "ArgumentError", actions |-> actions,
          defaults |-> defaults, short_options |-> named.short_options]
    ELSE CmdParserLoop(props, i + 1, Append(actions, NewAction(arg, named.options)),
                       WithDefault(defaults, arg.name, props[i].default_val),
                       named.short_options)

CmdParserStep(props, i, actions, defaults, short_options, arg) ==
    IF ~arg.ok
    THEN [status |-> "ValueError", actions |-> actions,
          defaults |-> defaults, short_options |-> short_options]
    ELSE AddArgument(props, i, actions, defaults, short_options, arg,
                     get_options_for_arg(arg.name, short_options))

CmdParserLoop(props, i, actions, defaults, short_options) ==
    IF i > Len(props)
    THEN [status |-> "ok", actions |-> actions, defaults |-> defaults,
          short_options |-> short_options]
    ELSE CmdParserStep(props, i, actions, defaults, short_options,
                       CmdArg(props[i].param))

\* parser.set_defaults(**defaults): every action whose dest is a key takes
\* the new default
set_defaults(actions, defaults) ==
    [j \in 1..Len(actions) |->
        IF actions[j].dest \in DOMAIN defaults
        THEN [actions[j] EXCEPT !.default = defaults[actions[j].dest]]
        ELSE actions[j]]

SchemaWithDefaults(r) ==
    IF r.status # "ok" THEN r
    ELSE [r EXCEPT !.actions = set_defaults(r.actions, r.defaults)]

\* __get_cmd_parser: [status, actions, defaults, short_options]
get_cmd_parser(sig, auto_disable_flags, short_options) ==
    SchemaWithDefaults(CmdParserLoop(get_arg_properties(sig, 1, auto_disable_flags),
                                     1, <<>>, <<>>, short_options))

(***************************************************************************)
(* The parsing primitive: argparse's parse_args on a built schema.         *)
(* Modelled for tokens that are a value (no leading "-"), a short option   *)
(* ("-" and one letter) or a long option ("--" and a name), with no "=".   *)
(***************************************************************************)
\* int(text) for a text of decimal digits; other texts raise ValueError
RECURSIVE DigitsValue(_)
DigitsValue(s) ==
    IF s = <<>> THEN 0
    ELSE 10 * DigitsValue(SubSeq(s, 1, Len(s) - 1)) + (Ord(s[Len(s)]) - 2)

NotConverted == [ok |-> FALSE, value |-> PNone]

\* a conversion that hands every value token on as text
ApplyParserAsText(parser, tok) == [ok |-> TRUE, value |-> PStr(tok)]

\* the type conversion argparse applies to one value token: [ok, value]
ApplyParser(parser, tok) ==
    CASE parser = "str" -> [ok |-> TRUE, value |-> PStr(tok)]
      [] parser = "int" ->
            IF tok # <<>> /\ \A n \in 1..Len(tok) : IsDigit(tok[n])
            THEN [ok |-> TRUE, value |-> PInt(DigitsValue(tok))]
            ELSE NotConverted
      [] parser = "bool" -> [ok |-> TRUE, value |-> PBool(tok # <<>>)]
      \* ast.literal_eval: a decimal numeral is an integer literal, a bare
      \* word is no literal (ValueError)
      [] parser = "literal_eval" ->
            IF tok # <<>> /\ \A n \in 1..Len(tok) : IsDigit(tok[n])
            THEN [ok |-> TRUE, value |-> PInt(DigitsValue(tok))]
            ELSE NotConverted
      \* dict(text): only the empty text is a sequence of pairs
      [] parser = "dict" ->
            IF tok = <<>> THEN [ok |-> TRUE, value |-> [k |-> "dict", v |-> 0]]
            ELSE NotConverted

\* the actions holding the option string o
OwnersOf(actions, o) ==
    {j \in 1..Len(actions) :
        \E n \in 1..Len(actions[j].option_strings) : actions[j].option_strings[n] = o}

Classified(cls, idx) == [cls |-> cls, idx |-> idx]

\* an option string recognised by exact match or as the only abbreviation
ClassifyOption(actions, o) ==
    IF o \in HelpOptions THEN Classified("help", 0)
    ELSE Classified("O", CHOOSE j \in OwnersOf(actions, o) : TRUE)

\* _get_option_tuples: the option strings the token abbreviates
ClassifyAbbreviation(actions, abbrev) ==
    IF Cardinality(abbrev) > 1 THEN Classified("ambiguous", 0)
    ELSE IF abbrev = {} THEN Classified("unknown", 0)
    ELSE ClassifyOption(actions, CHOOSE o \in abbrev : TRUE)

\* _parse_optional: how a token is classified against the schema:
\* "A" an argument, "O" an option of action idx, "help", "unknown" (an
\* option-like token matching nothing) or "ambiguous" (an abbreviation of
\* several option strings)
ClassifyToken(actions, tok) ==
    IF tok = <<>> \/ tok[1] # "-" THEN Classified("A", 0)
    ELSE IF tok \in OptionStringsOf(actions) THEN ClassifyOption(actions, tok)
    ELSE IF Len(tok) = 1 THEN Classified("A", 0)
    ELSE ClassifyAbbreviation(actions,
            {o \in OptionStringsOf(actions) : StartsWith(o, tok)})

\* the number of consecutive argument tokens from position i on
RECURSIVE ArgRun(_, _, _)
ArgRun(actions, toks, i) ==
    IF i > Len(toks) \/ ClassifyToken(actions, toks[i]).cls # "A" THEN 0
    ELSE 1 + ArgRun(actions, toks, i + 1)

SetKey(ns, key, value) ==
    [k \in DOMAIN ns \cup {key} |-> IF k = key THEN value ELSE ns[k]]

\* the namespace before any token is consumed: action defaults in action
\* order, then the parser-level defaults not yet present
RECURSIVE InitialNamespace(_, _, _)
InitialNamespace(actions, j, ns) ==
    IF j > Len(actions) THEN ns
    ELSE InitialNamespace(actions, j + 1,
            IF actions[j].dest \in DOMAIN ns THEN ns
            ELSE SetKey(ns, actions[j].dest, actions[j].default))

WithParserDefaults(ns, defaults) ==
    [k \in DOMAIN ns \cup DOMAIN defaults |-> IF k \in DOMAIN ns THEN ns[k] ELSE defaults[k]]

Parsed(status, ns) == [status |-> status, ns |-> ns]

\* after the last token: unseen required actions, conversion of textual
\* defaults of unseen actions, left-over tokens
RECURSIVE FinishParse(_, _, _, _, _)
ConvertDefault(actions, j, ns, seen, extras, a, converted) ==
    IF converted.ok
    THEN FinishParse(actions, j + 1, SetKey(ns, a.dest, converted.value), seen, extras)
    ELSE Parsed("exit2", ns)

FinishAction(actions, j, ns, seen, extras, a) ==
    IF /\ j \notin seen
       /\ ~a.required
       /\ a.default.k = "str"
       /\ ns[a.dest] = a.default
       /\ a.action \in {"store", "append"}
    THEN ConvertDefault(actions, j, ns, seen, extras, a,
                        ApplyParser(a.parser, a.default.v))
    ELSE FinishParse(actions, j + 1, ns, seen, extras)

FinishParse(actions, j, ns, seen, extras) ==
    IF j > Len(actions)
    THEN IF (\E r \in 1..Len(actions) : actions[r].required /\ r \notin seen) \/ extras
         THEN Parsed("exit2", ns)
         ELSE Parsed("ok", ns)
    ELSE FinishAction(actions, j, ns, seen, extras, actions[j])

ConsValues(head, rest) ==
    IF head.ok /\ rest.ok
    THEN [ok |-> TRUE, values |-> <<head.value>> \o rest.values]
    ELSE [ok |-> FALSE, values |-> <<>>]

\* the values of tokens toks[lo..hi] under a parser: [ok, values]
RECURSIVE ParseValues(_, _, _, _)
ParseValues(parser, toks, lo, hi) ==
    IF lo > hi THEN [ok |-> TRUE, values |-> <<>>]
    ELSE ConsValues(ApplyParser(parser, toks[lo]), ParseValues(parser, toks, lo + 1, hi))

\* the consumption of the tokens from position i on: [status, ns] with status
\* "ok", "exit0" (help), "exit2" (a parse error) or "AttributeError" (append
\* onto a default that is no list)
RECURSIVE ConsumeTokens(_, _, _, _, _, _)
\* a store action takes one argument token
StoreValue(actions, toks, i, ns, seen, extras, idx, a, converted) ==
    IF ~converted.ok THEN Parsed("exit2", ns)
    ELSE ConsumeTokens(actions, toks, i + 2, SetKey(ns, a.dest, converted.value),
                       seen \cup {idx}, extras)

\* an append action with nargs "+" takes the whole run of argument tokens and
\* appends their list to a copy of the current value
AppendValues(actions, toks, i, ns, seen, extras, idx, a, run, vals, items) ==
    IF run = 0 \/ ~vals.ok THEN Parsed("exit2", ns)
    ELSE IF items.k \notin {"none", "list"} THEN Parsed("AttributeError", ns)
    ELSE ConsumeTokens(actions, toks, i + 1 + run,
            SetKey(ns, a.dest,
                   PList((IF items.k = "none" THEN <<>> ELSE items.v)
                         \o <<PList(vals.values)>>)),
            seen \cup {idx}, extras)

ConsumeOption(actions, toks, i, ns, seen, extras, idx, a, run) ==
    CASE a.action \in {"store_true", "store_false"} ->
            ConsumeTokens(actions, toks, i + 1,
                SetKey(ns, a.dest, PBool(a.action = "store_true")),
                seen \cup {idx}, extras)
      [] a.action = "store" ->
            StoreValue(actions, toks, i, ns, seen, extras, idx, a,
                IF run = 0 THEN NotConverted ELSE ApplyParser(a.parser, toks[i + 1]))
      [] a.action = "append" ->
            AppendValues(actions, toks, i, ns, seen, extras, idx, a, run,
                ParseValues(a.parser, toks, i + 1, i + run), ns[a.dest])

ConsumeClassified(actions, toks, i, ns, seen, extras, c) ==
    CASE c.cls \in {"A", "unknown"} ->
            ConsumeTokens(actions, toks, i + 1, ns, seen, TRUE)
      [] c.cls = "help" -> Parsed("exit0", ns)
      [] c.cls = "O" ->
            ConsumeOption(actions, toks, i, ns, seen, extras, c.idx, actions[c.idx],
                          ArgRun(actions, toks, i + 1))

ConsumeTokens(actions, toks, i, ns, seen, extras) ==
    IF i > Len(toks) THEN FinishParse(actions, 1, ns, seen, extras)
    ELSE ConsumeClassified(actions, toks, i, ns, seen, extras,
                           ClassifyToken(actions, toks[i]))

\* ArgumentParser.parse_args(tokens): [status, ns]
parse_args(schema, toks) ==
    IF \E i \in 1..Len(toks) : ClassifyToken(schema.actions, toks[i]).cls = "ambiguous"
    THEN Parsed("exit2", <<>>)
    ELSE ConsumeTokens(schema.actions, toks, 1,
            WithParserDefaults(InitialNamespace(schema.actions, 1, <<>>), schema.defaults),
            {}, FALSE)

(***************************************************************************)
(* Post-processing of the parsed namespace (__parse_cmd_args).             *)
(***************************************************************************)
\* the one-level flattening loop of __flatten_list_argument
RECURSIVE FlattenItems(_)
FlattenItems(items) ==
    IF items = <<>> THEN <<>>
    ELSE (IF items[1].k = "list" THEN items[1].v ELSE <<items[1]>>)
         \o FlattenItems(Tail(items))

\* __is_append_action for some action of the parser
HasAppendAction(actions, key) ==
    \E j \in 1..Len(actions) : actions[j].dest = key /\ actions[j].action = "append"

\* __flatten_list_argument on one key's value
flatten_list_argument(actions, key, value) ==
    IF ~HasAppendAction(actions, key) THEN value
    ELSE IF ~Truthy(value) THEN value
    ELSE IF value.k # "list" THEN value
    ELSE PList(FlattenItems(value.v))

\* the loop of __parse_cmd_args over the keys: None values are dropped, the
\* others flattened
PostProcess(actions, ns) ==
    [key \in {k \in DOMAIN ns : ns[k] # PNone} |->
        flatten_list_argument(actions, key, ns[key])]

\* whether Python can bind the keyword arguments to the signature
BindsTo(sig, kwargs) ==
    /\ DOMAIN kwargs \subseteq ParamNames(sig)
    /\ \A i \in 1..Len(sig) : sig[i].default = PEmpty => sig[i].name \in DOMAIN kwargs

(***************************************************************************)
(* The completion adapter (mlargparser_argcomplete).                       *)
(* A function object is the sequence of its wrappers: the constructor the  *)
(* class declares is <<"__init__">>, and _patched_init closing over f is   *)
(* f with "_patched_init" appended.  None is the empty sequence.           *)
(***************************************************************************)
OriginalInit == <<"__init__">>

None == <<>>

\* the module state after import: available is `argcomplete is not None`, env
\* is whether _ARGCOMPLETE is set, init is MLArgParser.__init__, calls counts
\* the install() and uninstall() calls made
Adapter(available, env) ==
    [available |-> available, env |-> env, original_init |-> None,
     init |-> OriginalInit, calls |-> 0]

Patched(a) == a.init[Len(a.init)] = "_patched_init"

\* an install() that patches again when it is already installed
install_again(a) ==
    IF ~a.available THEN a
    ELSE [a EXCEPT !.original_init = a.init,
                   !.init = Append(a.init, "_patched_init")]

\* install()
install(a) ==
    IF ~a.available THEN a
    ELSE IF a.original_init # None THEN a
    ELSE [a EXCEPT !.original_init = a.init,
                   !.init = Append(a.init, "_patched_init")]

\* uninstall()
uninstall(a) ==
    IF a.original_init = None THEN a
    ELSE [a EXCEPT !.init = a.original_init, !.original_init = None]

\* the keys of self.commands in the order a dict keeps them: the order in
\* which the loop of __init_commands first stored each key
RECURSIVE InsertionOrder(_, _, _, _)
KeyInserted(case_sensitive, attrs, i, keys, key, valid) ==
    InsertionOrder(case_sensitive, attrs, i + 1,
        IF valid /\ key \notin {keys[n] : n \in 1..Len(keys)}
        THEN Append(keys, key) ELSE keys)

InsertionOrder(case_sensitive, attrs, i, keys) ==
    IF i > Len(attrs) THEN keys
    ELSE IF ~IsCommandMember(attrs[i])
    THEN InsertionOrder(case_sensitive, attrs, i + 1, keys)
    ELSE KeyInserted(case_sensitive, attrs, i, keys,
            NormalizeCommandName(case_sensitive, attrs[i].name),
            \/ attrs[i].kind = "class"
            \/ validate_command_signature(attrs[i].sig, attrs[i].name) = <<>>)

\* an entry of the completion parser: a leaf with the actions added to its
\* subparser, or a tree with the entries copied from the nested parser
MirrorEntry(kind, actions, entries) ==
    [kind |-> kind, actions |-> actions, entries |-> entries]

PutEntry(entries, key, entry) ==
    [k \in DOMAIN entries \cup {key} |-> IF k = key THEN entry ELSE entries[k]]

\* _copy_parser_content passes nargs = 0 of a flag action to add_argument
\* without its action, which argparse refuses with ValueError
HasFlagAction(entries) ==
    \E k \in DOMAIN entries :
        \E j \in 1..Len(entries[k].actions) :
            entries[k].actions[j].action \in {"store_true", "store_false"}

\* _copy_parser_content: the action keyword is not an attribute of an action,
\* so every copy is a store action
CopiedEntries(entries) ==
    [k \in DOMAIN entries |->
        [entries[k] EXCEPT !.actions =
            [j \in 1..Len(entries[k].actions) |->
                [entries[k].actions[j] EXCEPT !.action = "store"]]]]

\* build_completion_parser: [status, entries, short_options], the tracker
\* being the one of the instance, shared by all its commands
RECURSIVE build_completion_parser(_, _, _, _)
RECURSIVE MirrorLoop(_, _, _, _, _, _, _)
MirrorLeaf(program, cls, commands, keys, i, strict_types, acc, schema) ==
    IF schema.status # "ok"
    THEN [acc EXCEPT !.status = schema.status,
                     !.short_options = schema.short_options]
    ELSE MirrorLoop(program, cls, commands, keys, i + 1, strict_types,
            [acc EXCEPT !.entries = PutEntry(acc.entries, keys[i],
                                        MirrorEntry("leaf", schema.actions, <<>>)),
                        !.short_options = schema.short_options])

MirrorTreeBuilt(program, cls, commands, keys, i, strict_types, acc, nested) ==
    IF nested.status # "ok" THEN [acc EXCEPT !.status = nested.status]
    ELSE IF HasFlagAction(nested.entries) THEN [acc EXCEPT !.status = "ValueError"]
    ELSE MirrorLoop(program, cls, commands, keys, i + 1, strict_types,
            [acc EXCEPT !.entries = PutEntry(acc.entries, keys[i],
                            MirrorEntry("tree", <<>>, CopiedEntries(nested.entries)))])

MirrorTree(program, cls, commands, keys, i, strict_types, acc, nested_cls, r) ==
    IF r.raised # "" THEN [acc EXCEPT !.status = r.raised]
    ELSE MirrorTreeBuilt(program, cls, commands, keys, i, strict_types, acc,
            build_completion_parser(program, nested_cls, r.commands, strict_types))

MirrorLoop(program, cls, commands, keys, i, strict_types, acc) ==
    IF i > Len(keys) THEN acc
    ELSE IF commands[keys[i]].kind = "class"
    THEN MirrorTree(program, cls, commands, keys, i, strict_types, acc,
            program[commands[keys[i]].cls],
            init_commands(program[commands[keys[i]].cls], strict_types))
    ELSE MirrorLeaf(program, cls, commands, keys, i, strict_types, acc,
            get_cmd_parser(commands[keys[i]].sig, cls.auto_disable_flags,
                           acc.short_options))

build_completion_parser(program, cls, commands, strict_types) ==
    MirrorLoop(program, cls, commands,
               InsertionOrder(cls.case_sensitive_commands, Dir(cls), 1, <<>>),
               1, strict_types,
               [status |-> "ok", entries |-> <<>>, short_options |-> {}])

(***************************************************************************)
(* The dispatch of one argument vector, as a state machine.                *)
(***************************************************************************)
VARIABLES
    prog,           \* the declared classes: class name -> class
    argv,           \* sys.argv
    nodes,          \* the MLArgParser instances under construction, root first
    pc,             \* the position of the innermost constructor
    outcome,        \* "" while running, then how the process ended
    calls,          \* the leaf handlers called, in order
    adapter,        \* the completion adapter: module state and MLArgParser.__init__
    mirror          \* the completion parser built for the root, key -> entry

vars == <<prog, argv, nodes, pc, outcome, calls, adapter, mirror>>

NoMember == [name |-> <<>>, kind |-> "", sig |-> <<>>, cls |-> ""]

\* the attributes __init__ sets before anything is parsed
\* an arg_desc value: None, or a dict of parameter name -> help text
NoDesc == [set |-> FALSE, map |-> <<>>]

Desc(map) == [set |-> TRUE, map |-> map]

\* the loop `combined[key] = value` over the entries of own
Override(base, own) ==
    [k \in DOMAIN base \cup DOMAIN own |-> IF k \in DOMAIN own THEN own[k] ELSE base[k]]

\* a merge in which the inherited entries win
merge_parent_first(has_parent, parent_desc, own_desc) ==
    Desc(Override(IF own_desc.set THEN own_desc.map ELSE <<>>,
                  IF has_parent /\ parent_desc.set THEN parent_desc.map ELSE <<>>))

\* __merge_arg_desc: the value assigned to self.arg_desc
merge_arg_desc(has_parent, parent_desc, own_desc) ==
    Desc(Override(IF has_parent /\ parent_desc.set /\ parent_desc.map # <<>>
                  THEN parent_desc.map ELSE <<>>,
                  IF own_desc.set THEN own_desc.map ELSE <<>>))

NewNode(cls, level, parent, top, strict_types) ==
    [cls |-> cls, level |-> level, parent |-> parent, top |-> top,
     strict_types |-> strict_types,
     commands |-> <<>>, collisions |-> <<>>, errors |-> <<>>,
     short_options |-> {},
     command_slice |-> <<>>, parsed_command |-> <<>>,
     callable |-> NoMember,
     args_slice |-> <<>>, callable_args |-> <<>>,
     has_arg_desc |-> FALSE, arg_desc |-> NoDesc,
     built |-> <<>>]

Self == Len(nodes)

Current == nodes[Self]

Finish(how) == pc' = "done" /\ outcome' = how

\* self.arg_desc as an attribute lookup: the instance's, else the class's
arg_desc_of(program, node) ==
    IF node.has_arg_desc THEN node.arg_desc ELSE program[node.cls].arg_desc

\* line 431 on the current node
MergedArgDesc ==
    merge_arg_desc(Current.parent > 0,
                   IF Current.parent > 0 THEN arg_desc_of(prog, nodes[Current.parent])
                   ELSE NoDesc,
                   arg_desc_of(prog, Current))

\* what one call of __init_commands on a node did: what it raised ("" for a
\* normal return) and the registry it left on the node
BuildCall(r) == [raised |-> r.raised, commands |-> r.commands]

\* lines 654-655: a registry that is truthy is kept and the call returns;
\* None and the empty registry are built (again)
init_commands_on(cls, node) ==
    IF node.commands # <<>>
    THEN [commands |-> node.commands, collisions |-> node.collisions,
          errors |-> node.errors, raised |-> ""]
    ELSE init_commands(cls, node.strict_types)

\* the registry r is stored on the node; what it raised ends the constructor
ConstructWith(r) ==
    /\ nodes' = [nodes EXCEPT ![Self] =
                    [@ EXCEPT !.commands = r.commands,
                              !.collisions = r.collisions,
                              !.errors = r.errors,
                              !.built = Append(@, BuildCall(r)),
                              !.has_arg_desc = (r.raised = ""),
                              !.arg_desc = IF r.raised = "" THEN MergedArgDesc ELSE @]]
    /\ IF r.raised # "" THEN Finish(r.raised)
       ELSE pc' = "parse_command" /\ outcome' = outcome

\* _patched_init takes the completion path: _ARGCOMPLETE is set and level is 1
CompletionRun == Patched(adapter) /\ adapter.env /\ Current.level = 1

\* a constructor that reads its command token before it builds the registry
ConstructWithSlice(r) ==
    /\ nodes' = [nodes EXCEPT ![Self] =
                    [@ EXCEPT !.commands = r.commands,
                              !.collisions = r.collisions,
                              !.errors = r.errors,
                              !.built = Append(@, BuildCall(r)),
                              !.has_arg_desc = (r.raised = ""),
                              !.arg_desc = IF r.raised = "" THEN MergedArgDesc ELSE @,
                              !.command_slice =
                                  PySlice(argv, Current.level, Current.level + 1)]]
    /\ IF r.raised # "" THEN Finish(r.raised)
       ELSE pc' = "parse_command" /\ outcome' = outcome

ConstructReadingTokenFirst ==
    /\ pc = "construct"
    /\ ~CompletionRun
    /\ ConstructWithSlice(init_commands(prog[Current.cls], Current.strict_types))
    /\ UNCHANGED <<adapter, mirror, prog, argv, calls>>

\* MLArgParser.__init__, lines 411-431: the registry is built; a collision
\* or validation error leaves the constructor as an exception
Construct ==
    /\ pc = "construct"
    /\ ~CompletionRun
    /\ ConstructWith(init_commands(prog[Current.cls], Current.strict_types))
    /\ UNCHANGED <<adapter, mirror, prog, argv, calls>>

\* the outcome of the node's own parser on its one-token slice
ParseCommandWith(slice, cls) ==
    /\ nodes' = [nodes EXCEPT ![Self] =
          [@ EXCEPT !.command_slice = slice,
                    !.parsed_command =
                        IF cls = "A"
                        THEN NormalizeCommandName(
                                prog[Current.cls].case_sensitive_commands, slice[1])
                        ELSE <<>>]]
    /\ CASE cls = "A" -> pc' = "get_cmd_callable" /\ outcome' = outcome
         [] cls = "help" -> Finish("exit0")
         [] OTHER -> Finish("exit2")

ParseCommandSlice(slice) ==
    ParseCommandWith(slice,
        IF slice = <<>> THEN "missing" ELSE ClassifyToken(<<>>, slice[1]).cls)

\* lines 443-446: the node's own parser reads the single token at its level
ParseCommand ==
    /\ pc = "parse_command"
    /\ ParseCommandSlice(PySlice(argv, Current.level, Current.level + 1))
    /\ UNCHANGED <<adapter, mirror, prog, argv, calls>>

\* __get_cmd_callable
GetCmdCallable ==
    /\ pc = "get_cmd_callable"
    /\ IF \/ StartsWith(Current.parsed_command, <<"_">>)
          \/ Current.parsed_command \notin DOMAIN Current.commands
       THEN Finish("exit1") /\ nodes' = nodes
       ELSE /\ nodes' = [nodes EXCEPT ![Self].callable =
                            Current.commands[Current.parsed_command]]
            /\ pc' = "parse_cmd_args"
            /\ outcome' = outcome
    /\ UNCHANGED <<adapter, mirror, prog, argv, calls>>

\* a descent whose child is handed the parent's own level: it reads the
\* token its parent read
ParseCmdArgsSubtreeSameLevel ==
    /\ pc = "parse_cmd_args"
    /\ Current.callable.kind = "class"
    /\ nodes' = [nodes EXCEPT ![Self].callable_args =
                    [level |-> Current.level, parent |-> Self, top |-> Current.top]]
    /\ pc' = "invoke"
    /\ UNCHANGED <<adapter, mirror, prog, argv, outcome, calls>>

\* a descent that hands the child its parent as `top`
ParseCmdArgsSubtreeTopIsParent ==
    /\ pc = "parse_cmd_args"
    /\ Current.callable.kind = "class"
    /\ nodes' = [nodes EXCEPT ![Self].callable_args =
                    [level |-> Current.level + 1, parent |-> Self, top |-> Self]]
    /\ pc' = "invoke"
    /\ UNCHANGED <<adapter, mirror, prog, argv, outcome, calls>>

\* __parse_cmd_args for a nested tree-node type: the child's constructor arguments
ParseCmdArgsSubtree ==
    /\ pc = "parse_cmd_args"
    /\ Current.callable.kind = "class"
    /\ nodes' = [nodes EXCEPT ![Self].callable_args =
                    [level |-> Current.level + 1, parent |-> Self, top |-> Current.top]]
    /\ pc' = "invoke"
    /\ UNCHANGED <<adapter, mirror, prog, argv, outcome, calls>>

\* a leaf parse whose failure is swallowed: the handler is reached all the same
ParsedLeafIgnoringErrors(schema, slice, parsed) ==
    /\ nodes' = [nodes EXCEPT ![Self] =
          [@ EXCEPT !.short_options = schema.short_options,
                    !.args_slice = slice,
                    !.callable_args = PostProcess(schema.actions, parsed.ns)]]
    /\ pc' = "invoke"
    /\ outcome' = outcome

\* the namespace parsed from the slice is post-processed into the bindings
ParsedLeaf(schema, slice, parsed) ==
    /\ nodes' = [nodes EXCEPT ![Self] =
          [@ EXCEPT !.short_options = schema.short_options,
                    !.args_slice = slice,
                    !.callable_args =
                        IF parsed.status = "ok"
                        THEN PostProcess(schema.actions, parsed.ns)
                        ELSE <<>>]]
    /\ IF parsed.status = "ok" THEN pc' = "invoke" /\ outcome' = outcome
       ELSE Finish(parsed.status)

ParseLeafSlice(schema, slice) ==
    IF schema.status # "ok"
    THEN /\ Finish(schema.status)
         /\ nodes' = [nodes EXCEPT ![Self].short_options = schema.short_options]
    ELSE ParsedLeaf(schema, slice, parse_args(schema, slice))

\* __parse_cmd_args for a leaf: the schema is built, the rest of argv parsed
\* against it, and the namespace post-processed
ParseCmdArgsLeaf ==
    /\ pc = "parse_cmd_args"
    /\ Current.callable.kind = "method"
    /\ ParseLeafSlice(get_cmd_parser(Current.callable.sig,
                                     prog[Current.cls].auto_disable_flags,
                                     Current.short_options),
                      PySlice(argv, Current.level + 1, Len(argv)))
    /\ UNCHANGED <<adapter, mirror, prog, argv, calls>>

\* line 455 for a nested tree-node type: the child node is constructed with
\* the passed level, parent and top, and the default strict_types
InvokeSubtree ==
    /\ pc = "invoke"
    /\ Current.callable.kind = "class"
    /\ nodes' = Append(nodes,
                    NewNode(Current.callable.cls,
                            Current.callable_args.level,
                            Current.callable_args.parent,
                            IF Current.callable_args.level > 1
                            THEN Current.callable_args.top ELSE Self + 1,
                            TRUE))
    /\ pc' = "construct"
    /\ UNCHANGED <<adapter, mirror, prog, argv, outcome, calls>>

\* a call of the handler that forgets the bindings
InvokeLeafWithoutArgs ==
    /\ pc = "invoke"
    /\ Current.callable.kind = "method"
    /\ calls' = Append(calls, [name |-> Current.callable.name,
                               cls |-> Current.cls,
                               level |-> Current.level,
                               kwargs |-> <<>>,
                               bound |-> BindsTo(Current.callable.sig, <<>>)])
    /\ Finish(IF BindsTo(Current.callable.sig, <<>>) THEN "returned" ELSE "TypeError")
    /\ UNCHANGED <<adapter, mirror, prog, argv, nodes>>

\* line 455 for a leaf: the handler is called with the keyword bindings;
\* Python raises TypeError when they do not fit the signature
InvokeLeaf ==
    /\ pc = "invoke"
    /\ Current.callable.kind = "method"
    /\ LET bound == BindsTo(Current.callable.sig, Current.callable_args)
       IN  /\ calls' = Append(calls, [name |-> Current.callable.name,
                                      cls |-> Current.cls,
                                      level |-> Current.level,
                                      kwargs |-> Current.callable_args,
                                      bound |-> bound])
           /\ Finish(IF bound THEN "returned" ELSE "TypeError")
    /\ UNCHANGED <<adapter, mirror, prog, argv, nodes>>

\* the script calls install() before it creates the root node
Install ==
    /\ pc = "setup"
    /\ adapter.calls < MaxAdapterCalls
    /\ adapter' = [install(adapter) EXCEPT !.calls = adapter.calls + 1]
    /\ UNCHANGED <<prog, argv, nodes, pc, outcome, calls, mirror>>

\* the script calls uninstall()
Uninstall ==
    /\ pc = "setup"
    /\ adapter.calls < MaxAdapterCalls
    /\ adapter' = [uninstall(adapter) EXCEPT !.calls = adapter.calls + 1]
    /\ UNCHANGED <<prog, argv, nodes, pc, outcome, calls, mirror>>

\* the script creates the root node: MLArgParser.__init__ is entered
Instantiate ==
    /\ pc = "setup"
    /\ pc' = "construct"
    /\ UNCHANGED <<prog, argv, nodes, outcome, calls, adapter, mirror>>

\* the completion parser is built; argcomplete.autocomplete ends the process
CompleteBuilt(r, built) ==
    /\ nodes' = [nodes EXCEPT ![Self] =
                    [@ EXCEPT !.commands = r.commands,
                              !.collisions = r.collisions,
                              !.errors = r.errors,
                              !.built = Append(@, BuildCall(r)),
                              !.has_arg_desc = TRUE,
                              !.arg_desc = MergedArgDesc,
                              !.short_options = built.short_options]]
    /\ mirror' = built.entries
    /\ Finish(IF built.status = "ok" THEN "completed" ELSE built.status)

CompleteWith(r) ==
    IF r.raised # ""
    THEN /\ nodes' = [nodes EXCEPT ![Self] =
                        [@ EXCEPT !.commands = r.commands,
                                  !.collisions = r.collisions,
                                  !.errors = r.errors,
                                  !.built = Append(@, BuildCall(r))]]
         /\ mirror' = mirror
         /\ Finish(r.raised)
    ELSE CompleteBuilt(r, build_completion_parser(prog, prog[Current.cls],
                                                  r.commands, Current.strict_types))

\* _patched_init on the completion path: the registry is built, then the
\* completion parser, and the process exits
Complete ==
    /\ pc = "construct"
    /\ CompletionRun
    /\ CompleteWith(init_commands(prog[Current.cls], Current.strict_types))
    /\ UNCHANGED <<prog, argv, calls, adapter>>

\* the script holds a node created with noparse=True and calls its
\* __init_commands, catching what it raises
InitCommandsStored(r) ==
    nodes' = [nodes EXCEPT ![Self] =
                 [@ EXCEPT !.commands = r.commands,
                           !.collisions = r.collisions,
                           !.errors = r.errors,
                           !.built = Append(@, BuildCall(r))]]

InitCommands ==
    /\ pc = "harness"
    /\ Len(Current.built) < MaxBuildCalls
    /\ InitCommandsStored(init_commands_on(prog[Current.cls], Current))
    /\ UNCHANGED <<prog, argv, pc, outcome, calls, adapter, mirror>>

Next ==
    \/ Construct
    \/ ParseCommand
    \/ GetCmdCallable
    \/ ParseCmdArgsSubtree
    \/ ParseCmdArgsLeaf
    \/ InvokeSubtree
    \/ InvokeLeaf
    \/ Install
    \/ Uninstall
    \/ Instantiate
    \/ Complete
    \/ InitCommands

(***************************************************************************)
(* The explored inputs: programs and argument vectors.                     *)
(***************************************************************************)
BoundedSeq(S, n) == UNION {[1..m -> S] : m \in 0..n}

DistinctNames(s) == \A i, j \in 1..Len(s) : i # j => s[i].name # s[j].name

Class(members, case_sensitive, strict_validation, auto_disable) ==
    [members |-> members, case_sensitive_commands |-> case_sensitive,
     strict_validation |-> strict_validation, auto_disable_flags |-> auto_disable,
     arg_desc |-> NoDesc]

\* the class with a declared arg_desc attribute
Described(cls, desc) == [cls EXCEPT !.arg_desc = desc]

EmptyClass == Class(<<>>, FALSE, TRUE, TRUE)

ClassNames == {"Root", "Dump", "Deep", "Sub"}

Program(root, dump, deep, sub) ==
    [c \in ClassNames |->
        CASE c = "Root" -> root [] c = "Dump" -> dump [] c = "Deep" -> deep
          [] OTHER -> sub]

t_prog == <<"p", "r", "o", "g">>
t_dump == <<"d", "u", "m", "p">>
t_config == <<"c", "o", "n", "f", "i", "g">>
t_format == <<"f", "o", "r", "m", "a", "t">>
t_count == <<"c", "o", "u", "n", "t">>
t_json == <<"j", "s", "o", "n">>
t_bogus == <<"b", "o", "g", "u", "s">>
t_text == <<"t", "e", "x", "t">>
t_cmd == <<"c", "m", "d">>
t_cache == <<"c", "a", "c", "h", "e">>
t_color == <<"c", "o", "l", "o", "r">>
t_hidden == <<"h", "i", "d", "d", "e", "n">>
t_tags == <<"t", "a", "g", "s">>
t_x == <<"x">>
t_no_x == <<"n", "o", "_", "x">>
t_no_no_x == <<"n", "o", "_", "n", "o", "_", "x">>
t_no_cache == <<"n", "o", "_", "c", "a", "c", "h", "e">>
t_a == <<"a">>
t_b == <<"b">>
t_10 == <<"1", "0">>
t_leaf == <<"l", "e", "a", "f">>
t_name == <<"n", "a", "m", "e">>
t_age == <<"a", "g", "e">>
t_verbose == <<"v", "e", "r", "b", "o", "s", "e">>

Long(name) == <<"-", "-">> \o name

\* a three-level tree: every level has a leaf `config` of its own signature,
\* and `dump` names the subtree at the first two levels
TreeProgram ==
    Program(
        Class(<<SubTree(t_dump, "Dump"),
                Method(t_config, <<Param(t_format, Ty("str"), PEmpty)>>)>>,
              FALSE, TRUE, TRUE),
        Class(<<Method(t_config, <<Param(t_format, Ty("str"), PStr(t_text)),
                                   Param(t_count, Ty("int"), PInt(1))>>),
                SubTree(t_dump, "Deep")>>,
              FALSE, TRUE, TRUE),
        Class(<<Method(t_config, <<>>)>>, FALSE, TRUE, TRUE),
        EmptyClass)

TreeTokens ==
    {t_dump, t_config, Long(t_format), Long(t_count), t_json, t_10, t_bogus,
     <<"-", "h">>}

\* single-leaf programs whose schema is built and whose flags are parsed
BoolTokens ==
    {Long(t_cache), Long(<<"n", "o", "-", "c", "a", "c", "h", "e">>),
     Long(t_hidden), Long(<<"n", "o", "-", "h", "i", "d", "d", "e", "n">>),
     Long(t_color)}

BoolSignatures ==
    {<<Param(t_cache, Ty("bool"), PBool(TRUE))>>,
     <<Param(t_hidden, Ty("bool"), PBool(TRUE))>>,
     <<Param(t_cache, Optional(Ty("bool")), PBool(TRUE)),
       Param(t_color, Ty("bool"), PBool(FALSE))>>,
     <<Param(t_no_cache, Ty("bool"), PBool(FALSE))>>,
     <<Param(t_color, Ty("bool"), PEmpty)>>}

ListTokens == {Long(t_tags), t_a, t_b, t_10}

ListSignatures ==
    {<<Param(t_tags, Generic("list", <<Ty("str")>>), PEmpty)>>,
     <<Param(t_tags, Generic("list", <<Ty("str")>>), PNone)>>,
     <<Param(t_tags, Generic("list", <<Ty("int")>>), PList(<<>>))>>,
     <<Param(t_tags, Optional(Generic("list", <<Ty("str")>>)), PList(<<PStr(t_x)>>))>>,
     <<Param(t_tags, Generic("tuple", <<Ty("str")>>), PTuple(<<PStr(t_x)>>))>>}

\* single-leaf programs whose signature is validated when the registry is built
RegistryParams ==
    {Param(n, Ty("bool"), PBool(d)) : n \in {t_x, t_no_x, t_no_no_x}, d \in BOOLEAN}
    \cup {Param(n, Optional(Ty("bool")), PNone) : n \in {t_x, t_no_x, t_no_no_x}}
    \cup {Param(n, Ty("str"), PEmpty) : n \in {t_x, t_no_x, t_no_no_x}}

\* programs whose member names normalise to the same or to different keys
MemberNames == {<<"A", "b">>, <<"a", "b">>, <<"a", "_", "b">>, <<"A", "_", "B">>}

MemberUniverse ==
    {Method(n, <<>>) : n \in MemberNames \cup {<<"_", "a", "b">>}}
    \cup {Method(n, <<Param(t_x, StrAnn("unknown"), PEmpty)>>) : n \in MemberNames}
    \cup {SubTree(n, "Sub") : n \in MemberNames}

MemberTokens == {<<"A", "b">>, <<"a", "b">>, <<"a", "_", "b">>, <<"a", "-", "b">>, <<"_", "a", "b">>}

\* the state in which the root node's constructor is entered
Start(program, args, strict_types) ==
    /\ prog = program
    /\ argv = args
    /\ nodes = <<NewNode("Root", 1, 0, 1, strict_types)>>
    /\ pc = "construct"
    /\ outcome = ""
    /\ calls = <<>>
    /\ adapter = Adapter(FALSE, FALSE)
    /\ mirror = <<>>

InitTree ==
    \E tail \in BoundedSeq(TreeTokens, MaxTail) :
        Start(TreeProgram, <<t_prog>> \o tail, TRUE)

SingleLeaf(sig, auto_disable) ==
    Program(Class(<<Method(t_cmd, sig)>>, FALSE, TRUE, auto_disable),
            EmptyClass, EmptyClass, EmptyClass)

InitBoolSchema ==
    \E sig \in BoolSignatures, auto \in BOOLEAN,
       flags \in BoundedSeq(BoolTokens, MaxFlagTokens) :
        Start(SingleLeaf(sig, auto), <<t_prog, t_cmd>> \o flags, TRUE)

InitListSchema ==
    \E sig \in ListSignatures, flags \in BoundedSeq(ListTokens, MaxListTokens) :
        Start(SingleLeaf(sig, TRUE), <<t_prog, t_cmd>> \o flags, TRUE)

InitRegistry ==
    \E sig \in BoundedSeq(RegistryParams, MaxParams), strict \in BOOLEAN :
        /\ DistinctNames(sig)
        /\ Start(Program(Class(<<Method(t_cmd, sig), Method(t_leaf, <<>>)>>,
                               FALSE, TRUE, TRUE),
                         EmptyClass, EmptyClass, EmptyClass),
                 <<t_prog, t_cmd>>, strict)

InitMembers ==
    \E members \in BoundedSeq(MemberUniverse, MaxMembers),
       cs \in BOOLEAN, sv \in BOOLEAN, strict \in BOOLEAN, tok \in MemberTokens :
        /\ DistinctNames(members)
        /\ Start(Program(Class(members, cs, sv, TRUE),
                         EmptyClass, EmptyClass,
                         Class(<<Method(t_leaf, <<>>)>>, FALSE, TRUE, TRUE)),
                 <<t_prog, tok>>, strict)

\* three-member nodes: colliding valid commands beside a command whose
\* signature is rejected, and two rejected commands beside a valid one
PolicyPrograms ==
    {<<Method(<<"A", "b">>, <<>>), Method(<<"a", "b">>, <<>>),
       Method(<<"a", "_", "b">>, <<Param(t_x, StrAnn("unknown"), PEmpty)>>)>>,
     <<Method(<<"A", "b">>, <<Param(t_x, StrAnn("unknown"), PEmpty)>>),
       Method(<<"a", "_", "b">>, <<Param(t_no_no_x, Ty("bool"), PBool(FALSE))>>),
       Method(<<"a", "b">>, <<>>)>>}

InitPolicy ==
    \E members \in PolicyPrograms,
       cs \in BOOLEAN, sv \in BOOLEAN, strict \in BOOLEAN, tok \in MemberTokens :
        Start(Program(Class(members, cs, sv, TRUE),
                      EmptyClass, EmptyClass,
                      Class(<<Method(t_leaf, <<>>)>>, FALSE, TRUE, TRUE)),
              <<t_prog, tok>>, strict)

\* a tree whose root and whose subtree each declare one valid command and one
\* command with an unresolvable annotation
LenientTreeProgram ==
    Program(Class(<<SubTree(t_dump, "Sub"),
                    Method(t_cmd, <<>>),
                    Method(t_bogus, <<Param(t_x, StrAnn("unknown"), PEmpty)>>)>>,
                  FALSE, TRUE, TRUE),
            EmptyClass, EmptyClass,
            Class(<<Method(t_leaf, <<>>),
                    Method(t_bogus, <<Param(t_x, StrAnn("unknown"), PEmpty)>>)>>,
                  FALSE, TRUE, TRUE))

\* the same tree with a root whose commands are all valid
SubtreeRejectedProgram ==
    Program(Class(<<SubTree(t_dump, "Sub"), Method(t_cmd, <<>>)>>, FALSE, TRUE, TRUE),
            EmptyClass, EmptyClass,
            Class(<<Method(t_leaf, <<>>),
                    Method(t_bogus, <<Param(t_x, StrAnn("unknown"), PEmpty)>>)>>,
                  FALSE, TRUE, TRUE))

LenientTreeTokens == {t_dump, t_cmd, t_leaf, t_bogus}

InitLenientTree ==
    \E program \in {LenientTreeProgram, SubtreeRejectedProgram},
       t1 \in LenientTreeTokens, t2 \in LenientTreeTokens, strict \in BOOLEAN :
        Start(program, <<t_prog, t1, t2>>, strict)

\* programs whose sibling commands have parameters of the same first letter,
\* beside a subtree whose leaf takes a value or a flag
CompletionProgram(leaf_sig) ==
    Program(Class(<<SubTree(t_dump, "Sub"),
                    Method(t_cmd, <<Param(t_cache, Ty("str"), PStr(t_text))>>),
                    Method(t_config, <<Param(t_count, Ty("int"), PInt(1))>>)>>,
                  FALSE, TRUE, TRUE),
            EmptyClass, EmptyClass,
            Class(<<Method(t_leaf, leaf_sig)>>, FALSE, TRUE, TRUE))

CompletionPrograms ==
    {CompletionProgram(<<Param(t_format, Ty("str"), PStr(t_text))>>),
     CompletionProgram(<<Param(t_color, Ty("bool"), PBool(FALSE))>>),
     SubtreeRejectedProgram}

CompletionTails == {<<>>, <<t_cmd>>, <<t_config>>, <<t_dump, t_leaf>>}

\* the script imports the adapter, calls install() and uninstall() some
\* times and then creates the root node
InitAdapter ==
    \E program \in CompletionPrograms, tail \in CompletionTails,
       available \in BOOLEAN, env \in BOOLEAN, strict \in BOOLEAN :
        /\ prog = program
        /\ argv = <<t_prog>> \o tail
        /\ nodes = <<NewNode("Root", 1, 0, 1, strict)>>
        /\ pc = "setup"
        /\ outcome = ""
        /\ calls = <<>>
        /\ adapter = Adapter(available, env)
        /\ mirror = <<>>

\* cmd(name: str, age: int, tags: List[str] = None, verbose: bool = False)
TypedSignature ==
    <<Param(t_name, Ty("str"), PEmpty),
      Param(t_age, Ty("int"), PEmpty),
      Param(t_tags, Generic("list", <<Ty("str")>>), PNone),
      Param(t_verbose, Ty("bool"), PBool(FALSE))>>

\* argument vectors made of whole flag occurrences, in either order
InitTyped ==
    \E name \in {<<>>, <<Long(t_name), t_a>>, <<Long(t_name), t_10>>},
       age \in {<<>>, <<Long(t_age), t_10>>, <<Long(t_age), t_a>>},
       tags \in {<<>>, <<Long(t_tags), t_a>>, <<Long(t_tags), t_a, t_b>>,
                 <<Long(t_tags), t_b, t_10>>},
       verbose \in {<<>>, <<Long(t_verbose)>>},
       forward \in BOOLEAN :
        Start(SingleLeaf(TypedSignature, TRUE),
              <<t_prog, t_cmd>> \o
                  (IF forward THEN name \o age \o tags \o verbose
                   ELSE verbose \o tags \o age \o name),
              TRUE)

\* commands whose parameters all have a declared default
DefaultSignatures ==
    {<<Param(t_name, Ty("str"), PStr(t_a)), Param(t_age, Ty("int"), PInt(10))>>,
     <<Param(t_name, Ty("str"), PNone), Param(t_age, Optional(Ty("int")), PNone)>>,
     <<Param(t_tags, Generic("list", <<Ty("str")>>), PNone),
       Param(t_verbose, Ty("bool"), PBool(FALSE))>>,
     <<Param(t_color, Ty("bool"), PBool(TRUE)), Param(t_age, Ty("int"), PInt(0))>>,
     <<Param(t_verbose, Optional(Ty("bool")), PNone)>>}

DefaultTokens == {Long(t_name), Long(t_age), Long(t_verbose), Long(t_tags), t_b, t_10}

InitDefaults ==
    \E sig \in DefaultSignatures, auto \in BOOLEAN,
       flags \in BoundedSeq(DefaultTokens, MaxDefaultTokens) :
        Start(SingleLeaf(sig, auto), <<t_prog, t_cmd>> \o flags, TRUE)

\* a three-level tree whose classes declare arg_desc mappings
DescribedProgram(root, dump, deep) ==
    Program(
        Described(Class(<<SubTree(t_dump, "Dump")>>, FALSE, TRUE, TRUE), root),
        Described(Class(<<SubTree(t_dump, "Deep"), Method(t_config, <<>>)>>,
                        FALSE, TRUE, TRUE), dump),
        Described(Class(<<Method(t_config, <<Param(t_format, Ty("str"), PStr(t_text))>>)>>,
                        FALSE, TRUE, TRUE), deep),
        EmptyClass)

RootDescs ==
    {NoDesc, Desc(<<>>), Desc(t_format :> "root"),
     Desc(t_format :> "root" @@ t_count :> "root")}

DumpDescs == {NoDesc, Desc(<<>>), Desc(t_count :> "dump"), Desc(t_format :> "dump")}

DeepDescs == {NoDesc, Desc(t_format :> "deep"), Desc(t_x :> "deep")}

DescribedTails ==
    {<<>>, <<t_dump>>, <<t_dump, t_config>>, <<t_dump, t_dump>>,
     <<t_dump, t_dump, t_config>>, <<t_dump, t_dump, t_bogus>>}

InitDescribed ==
    \E root \in RootDescs, dump \in DumpDescs, deep \in DeepDescs,
       tail \in DescribedTails :
        Start(DescribedProgram(root, dump, deep), <<t_prog>> \o tail, TRUE)

\* declared types of one parameter x.  Generic(t, args) with text arguments
\* stands for the built-in generic (list["int"]), whose arguments stay text
CollectionAnnotations ==
    {Generic("list", <<Ty("int")>>), Generic("set", <<Ty("str")>>),
     Generic("tuple", <<Ty("int"), Ty("str")>>), Generic("list", <<>>),
     Generic("list", <<Optional(Ty("int"))>>),
     Generic("list", <<Generic("list", <<Ty("int")>>)>>),
     Ty("list"), Ty("set"), Ty("tuple")}

MappingAnnotations ==
    {Ty("dict"), Generic("dict", <<Ty("str"), Ty("int")>>),
     Generic("dict", <<Ty("int"), Ty("str")>>), Generic("dict", <<>>)}

PlainAnnotations == {Ty("int"), Ty("str"), Ty("bool"), AnnEmpty}

UnionAnnotations ==
    {Union(<<Ty("int"), Ty("str")>>), Union(<<Ty("str"), Ty("int")>>),
     Union(<<Ty("bool"), Ty("int")>>), Union(<<Ty("NoneType"), Ty("int")>>),
     Union(<<Ty("int"), Ty("str"), Ty("NoneType")>>),
     Union(<<Generic("list", <<Ty("int")>>), Ty("str")>>)}

TextAnnotations ==
    {StrAnn("int"), StrAnn("str"), StrAnn("unknown"),
     Generic("list", <<StrAnn("int")>>), Generic("list", <<StrAnn("unknown")>>)}

\* the types that are wrapped in Optional as well
Wrappable ==
    (CollectionAnnotations \cup MappingAnnotations \cup PlainAnnotations) \ {AnnEmpty}

AnnotationUniverse ==
    CollectionAnnotations \cup MappingAnnotations \cup PlainAnnotations
    \cup UnionAnnotations \cup TextAnnotations
    \cup {Optional(a) : a \in Wrappable}

AnnotatedTails == {<<>>, <<Long(t_x)>>, <<Long(t_x), t_10>>, <<Long(t_x), t_a>>}

\* cmd(x: ann) or cmd(x: ann = None), beside a command without parameters
InitAnnotated ==
    \E ann \in AnnotationUniverse, default \in {PEmpty, PNone},
       tail \in AnnotatedTails, strict \in BOOLEAN :
        Start(Program(Class(<<Method(t_cmd, <<Param(t_x, ann, default)>>),
                              Method(t_leaf, <<>>)>>,
                            FALSE, TRUE, TRUE),
                      EmptyClass, EmptyClass, EmptyClass),
              <<t_prog, t_cmd>> \o tail, strict)

\* a tree in which the subtree type is reachable from itself (Dump.dump = Dump)
RecursiveProgram ==
    Program(
        Class(<<SubTree(t_dump, "Dump")>>, FALSE, TRUE, TRUE),
        Class(<<Method(t_config, <<>>), SubTree(t_dump, "Dump")>>, FALSE, TRUE, TRUE),
        EmptyClass,
        EmptyClass)

RecursiveTokens == {t_dump, t_config, t_bogus}

InitRecursive ==
    \E tail \in BoundedSeq(RecursiveTokens, MaxTail) :
        Start(RecursiveProgram, <<t_prog>> \o tail, TRUE)

\* nodes whose build raises with and without a command registered, warns,
\* or succeeds with and without a command
HarnessPrograms ==
    PolicyPrograms
    \cup {<<>>,
          <<Method(<<"a", "b">>, <<>>)>>,
          <<Method(<<"A", "b">>, <<>>), Method(<<"a", "b">>, <<>>)>>,
          <<Method(<<"a", "b">>, <<>>), SubTree(<<"A", "b">>, "Sub")>>,
          <<Method(<<"a", "b">>, <<Param(t_x, StrAnn("unknown"), PEmpty)>>)>>,
          <<Method(<<"a", "b">>, <<>>),
            Method(<<"a", "_", "b">>, <<Param(t_x, StrAnn("unknown"), PEmpty)>>)>>}

\* the script creates the root with noparse=True and builds its registry
\* some times
InitHarness ==
    \E members \in HarnessPrograms,
       cs \in BOOLEAN, sv \in BOOLEAN, strict \in BOOLEAN :
        /\ DistinctNames(members)
        /\ prog = Program(Class(members, cs, sv, TRUE),
                          EmptyClass, EmptyClass,
                          Class(<<Method(t_leaf, <<>>)>>, FALSE, TRUE, TRUE))
        /\ argv = <<t_prog>>
        /\ nodes = <<NewNode("Root", 1, 0, 1, strict)>>
        /\ pc = "harness"
        /\ outcome = ""
        /\ calls = <<>>
        /\ adapter = Adapter(FALSE, FALSE)
        /\ mirror = <<>>

Init ==
    \/ InitTree \/ InitBoolSchema \/ InitListSchema \/ InitRegistry \/ InitMembers
    \/ InitPolicy \/ InitLenientTree \/ InitAdapter
    \/ InitTyped \/ InitDefaults \/ InitDescribed
    \/ InitAnnotated \/ InitRecursive \/ InitHarness

Spec == Init /\ [][Next]_vars

(***************************************************************************)
(* Properties.                                                             *)
(***************************************************************************)
Done == pc = "done"

\* the innermost node's registry construction ended in an exception
RegistryRaised == outcome \in {"CollisionError", "ValidationError"}

\* node i has a token at its level
HasToken(i) == Len(argv) > i

\* the token at node i's level (argv[i] counted from zero)
TokenAt(i) == argv[i + 1]

\* a token the parsing primitive reads as an option rather than as a value
OptionLike(tok) == tok # <<>> /\ tok[1] = "-"

\* the registry key node i makes of the token at its level
KeyAt(i) ==
    NormalizeCommandName(prog[nodes[i].cls].case_sensitive_commands, TokenAt(i))

\* node i's registry maps the token at its level to a member of the kind
MapsTo(i, kind) ==
    /\ HasToken(i)
    /\ KeyAt(i) \in DOMAIN nodes[i].commands
    /\ nodes[i].commands[KeyAt(i)].kind = kind

Selected(i) == nodes[i].commands[KeyAt(i)]

\* the tokens after the command token of node i
TokensAfter(i) == SubSeq(argv, i + 2, Len(argv))

\* the schema of the leaf selected at node i and the parse of the tokens after it
LeafSchema(i) ==
    get_cmd_parser(Selected(i).sig, prog[nodes[i].cls].auto_disable_flags, {})

LeafParse(i) == parse_args(LeafSchema(i), TokensAfter(i))

HasBindings(i) == LeafSchema(i).status = "ok" /\ LeafParse(i).status = "ok"

LeafBindings(i) == PostProcess(LeafSchema(i).actions, LeafParse(i).ns)

\* C1: multi-level dispatch.  When the run has ended without a registry
\* error, every node but the innermost was left through a token its registry
\* maps to a subtree type, whose node sits exactly one level deeper; the
\* innermost node's token names no subtree; and if it names a leaf c whose
\* schema parses the tokens after c, then c, and no other handler at any
\* level, has been called exactly once, with the bindings parsed from those
\* tokens.  No handler is called before the run ends.
C1_MultiLevelDispatch ==
    /\ ~Done => calls = <<>>
    /\ (Done /\ ~RegistryRaised /\ ~CompletionRun) =>
          /\ \A i \in 1..(Len(nodes) - 1) :
                /\ MapsTo(i, "class")
                /\ nodes[i + 1].cls = Selected(i).cls
                /\ nodes[i + 1].level = i + 1
          /\ ~MapsTo(Len(nodes), "class")
          /\ IF MapsTo(Len(nodes), "method") /\ HasBindings(Len(nodes))
             THEN /\ Len(calls) = 1
                  /\ calls[1].name = Selected(Len(nodes)).name
                  /\ calls[1].cls = nodes[Len(nodes)].cls
                  /\ calls[1].level = Len(nodes)
                  /\ calls[1].kwargs = LeafBindings(Len(nodes))
             ELSE calls = <<>>

\* `prog dump config --format json` has called config(format="json") of the
\* subtree, its undeclared count at the default
C1_Witness ==
    /\ argv = <<t_prog, t_dump, t_config, Long(t_format), t_json>>
    /\ Done
    /\ outcome = "returned"
    /\ Len(nodes) = 2
    /\ calls = <<[name |-> t_config, cls |-> "Dump", level |-> 2,
                  kwargs |-> (t_format :> PStr(t_json)) @@ (t_count :> PInt(1)),
                  bound |-> TRUE]>>

\* node i's own parser has read its slice
CommandRead(i) ==
    \/ i < Len(nodes)
    \/ pc \in {"get_cmd_callable", "parse_cmd_args", "invoke"}
    \/ Done /\ ~RegistryRaised /\ ~CompletionRun

\* node i's leaf parser has read its slice
LeafParsed(i) ==
    /\ i = Len(nodes)
    /\ nodes[i].callable.kind = "method"
    /\ pc = "invoke" \/ (Done /\ outcome \notin {"ArgumentError", "ValueError"})

\* C2: positional slicing.  The node at level n is the n-th node; the slice
\* its own parser reads is the single token argv[n] (empty when argv ends
\* before it); the command it resolves is the registry entry of that token's
\* key; and when that command is a leaf, the slice parsed against the leaf's
\* schema is exactly argv[n+1:].
C2_PositionalSlicing ==
    \A i \in 1..Len(nodes) :
        /\ nodes[i].level = i
        /\ CommandRead(i) =>
              nodes[i].command_slice = IF HasToken(i) THEN <<TokenAt(i)>> ELSE <<>>
        /\ nodes[i].callable # NoMember =>
              /\ HasToken(i)
              /\ nodes[i].parsed_command = KeyAt(i)
              /\ nodes[i].callable = Selected(i)
        /\ LeafParsed(i) => nodes[i].args_slice = TokensAfter(i)

\* the second-level leaf of `prog dump config --count 10` is selected by
\* argv[2] alone and its schema has parsed argv[3:]
C2_Witness ==
    /\ argv = <<t_prog, t_dump, t_config, Long(t_count), t_10>>
    /\ pc = "invoke"
    /\ Len(nodes) = 2
    /\ nodes[2].command_slice = <<t_config>>
    /\ nodes[2].callable.name = t_config
    /\ nodes[2].args_slice = <<Long(t_count), t_10>>

\* the parsing primitive reports an error for the tokens after the leaf
\* selected at node i
LeafParseFails(i) ==
    /\ MapsTo(i, "method")
    /\ LeafSchema(i).status = "ok"
    /\ LeafParse(i).status = "exit2"

\* the token at node i's level is no key of its registry
Unrecognized(i) == HasToken(i) /\ KeyAt(i) \notin DOMAIN nodes[i].commands

IsBoolAnn(ann) == ann = Ty("bool") \/ ann = Optional(Ty("bool"))

\* a name with its underscores written as dashes
Dashed(name) == [n \in 1..Len(name) |-> IF name[n] = "_" THEN "-" ELSE name[n]]

\* the positions of the boolean parameters with default true that carry no
\* disable prefix and have no declared `no_` counterpart
DualFlagParams(sig) ==
    {j \in 1..Len(sig) :
        /\ IsBoolAnn(sig[j].ann)
        /\ sig[j].default = PBool(TRUE)
        /\ ~StartsWith(sig[j].name, NoPrefix)
        /\ (NoPrefix \o sig[j].name) \notin ParamNames(sig)}

\* the innermost node has selected a leaf and gone on to build its schema
LeafSchemaBuilt == nodes[Len(nodes)].callable.kind = "method" /\ (pc = "invoke" \/ Done)

\* the positions of the tokens spelling one of the two flags
FlagPositions(toks, on, off) == {n \in 1..Len(toks) : toks[n] \in {on, off}}

LastPosition(S) == CHOOSE n \in S : \A m \in S : m <= n

\* the value the two flags leave: true unless the last of them is the disable flag
DualFlagValue(toks, on, off) ==
    IF FlagPositions(toks, on, off) = {} THEN TRUE
    ELSE toks[LastPosition(FlagPositions(toks, on, off))] = on

\* the actions of a schema writing the destination key
ActionsFor(schema, dest) == {j \in 1..Len(schema.actions) : schema.actions[j].dest = dest}

HasOption(action, option) ==
    \E n \in 1..Len(action.option_strings) : action.option_strings[n] = option

\* the claim of C4 for parameter j of the leaf selected at node i
DualFlags(i, sig, j) ==
    /\ outcome \notin {"ArgumentError", "ValueError"}
    /\ LeafSchema(i).status = "ok"
    /\ Cardinality(ActionsFor(LeafSchema(i), sig[j].name)) = 2
    /\ \E a, b \in ActionsFor(LeafSchema(i), sig[j].name) :
          /\ HasOption(LeafSchema(i).actions[a], Long(Dashed(sig[j].name)))
          /\ LeafSchema(i).actions[a].action = "store_true"
          /\ HasOption(LeafSchema(i).actions[b], Long(Dashed(NoPrefix \o sig[j].name)))
          /\ LeafSchema(i).actions[b].action = "store_false"
          /\ LeafSchema(i).actions[a].default = PBool(TRUE)
          /\ LeafSchema(i).actions[b].default = PBool(TRUE)
    /\ (Done /\ outcome = "returned") =>
          /\ sig[j].name \in DOMAIN calls[1].kwargs
          /\ calls[1].kwargs[sig[j].name] =
                PBool(DualFlagValue(TokensAfter(i), Long(Dashed(sig[j].name)),
                                    Long(Dashed(NoPrefix \o sig[j].name))))
    /\ (/\ Done
        /\ Len(sig) = 1
        /\ TokensAfter(i) \in {<<>>, <<Long(Dashed(NoPrefix \o sig[j].name))>>}) =>
          outcome = "returned"

\* C4: boolean dual flags (on a node that keeps automatic disable flags).
\* For every boolean parameter x with default true, without the `no_` prefix
\* and without a declared no_x, the schema of the selected leaf is built,
\* holds exactly two flags writing the destination x, `--x` setting true and
\* `--no-x` setting false, both starting from true; parsing with no flag
\* yields x = true and with `--no-x` yields x = false.
C4_BooleanDualFlags ==
    (LeafSchemaBuilt /\ prog[nodes[Len(nodes)].cls].auto_disable_flags) =>
        \A j \in DualFlagParams(nodes[Len(nodes)].callable.sig) :
            DualFlags(Len(nodes), nodes[Len(nodes)].callable.sig, j)

\* the same statement for the parameters whose name does not begin with "h"
C4_ExceptHelpLetter ==
    (LeafSchemaBuilt /\ prog[nodes[Len(nodes)].cls].auto_disable_flags) =>
        \A j \in DualFlagParams(nodes[Len(nodes)].callable.sig) :
            nodes[Len(nodes)].callable.sig[j].name[1] # "h" =>
                DualFlags(Len(nodes), nodes[Len(nodes)].callable.sig, j)

\* cmd(hidden: bool = True) invoked with no flag: the schema cannot be built
C4_Witness ==
    /\ argv = <<t_prog, t_cmd>>
    /\ nodes[1].callable.sig = <<Param(t_hidden, Ty("bool"), PBool(TRUE))>>
    /\ prog["Root"].auto_disable_flags
    /\ Done
    /\ outcome = "ArgumentError"
    /\ calls = <<>>

\* node i's registry has been built by its constructor (which may have
\* raised); a node the script builds by hand is left to C30
RegistryBuilt(i) == i < Len(nodes) \/ pc \notin {"construct", "harness"}

\* node i's registry construction raised
ConstructionRaised(i) == i = Len(nodes) /\ Done /\ RegistryRaised

\* the leaf handlers node i's class declares as commands
LeafMembers(i) ==
    {prog[nodes[i].cls].members[n] : n \in 1..Len(prog[nodes[i].cls].members)}
        \cap {m \in {prog[nodes[i].cls].members[n] :
                        n \in 1..Len(prog[nodes[i].cls].members)} :
                m.kind = "method" /\ m.name[1] # "_"}

Registered(i, m) == \E k \in DOMAIN nodes[i].commands : nodes[i].commands[k] = m

\* the errors node i recorded for the command
ErrorsOf(i, name) == SelectSeq(nodes[i].errors, LAMBDA e : e.command = name)

DoubleNoPrefix == <<"n", "o", "_", "n", "o", "_">>

\* the positions of the boolean parameters named with the disable prefix twice
DoubleNegatives(sig) ==
    {j \in 1..Len(sig) : IsBoolAnn(sig[j].ann) /\ StartsWith(sig[j].name, DoubleNoPrefix)}

\* the positions of the boolean parameters no_x declared beside a parameter x
Counterparts(sig) ==
    {j \in 1..Len(sig) :
        /\ IsBoolAnn(sig[j].ann)
        /\ StartsWith(sig[j].name, NoPrefix)
        /\ ~StartsWith(sig[j].name, DoubleNoPrefix)
        /\ \E h \in 1..Len(sig) : NoPrefix \o sig[h].name = sig[j].name}

\* the positions of the boolean parameters no_x declared beside a boolean x
BooleanCounterparts(sig) ==
    {j \in Counterparts(sig) :
        \E h \in 1..Len(sig) :
            NoPrefix \o sig[h].name = sig[j].name /\ IsBoolAnn(sig[h].ann)}

FirstPosition(S) == CHOOSE n \in S : \A m \in S : n <= m

\* the one error recorded against a command whose first conflicting
\* parameter is at position j
ConflictAt(name, sig, j) ==
    IF j \in DoubleNegatives(sig)
    THEN [command |-> name, kind |-> "double_negative", param |-> sig[j].name,
          base |-> <<>>]
    ELSE [command |-> name, kind |-> "ambiguous", param |-> sig[j].name,
          base |-> SubSeq(sig[j].name, 4, Len(sig[j].name))]

\* C5 as stated: a command declaring a boolean no_no_x makes registry
\* construction fail with an error under either typing policy.
C5_AsStated ==
    \A i \in 1..Len(nodes) :
        RegistryBuilt(i) =>
            \A m \in LeafMembers(i) :
                DoubleNegatives(m.sig) # {} => ConstructionRaised(i)

\* C5, amended: under either typing policy a command declaring a boolean
\* no_no_x is rejected: it is never registered and exactly one
\* signature-conflict error is recorded against it, the double-negative error
\* naming the parameter unless an earlier parameter of the command is a
\* boolean no_y declared beside y, whose error is recorded instead.  The
\* rejection is raised as an error exactly under strict typing; under lenient
\* typing it is a warning and construction goes on.
C5_DoubleNegativeRejected ==
    \A i \in 1..Len(nodes) :
        RegistryBuilt(i) =>
            \A m \in LeafMembers(i) :
                DoubleNegatives(m.sig) # {} =>
                    /\ ~Registered(i, m)
                    /\ ErrorsOf(i, m.name) =
                          <<ConflictAt(m.name, m.sig,
                                FirstPosition(DoubleNegatives(m.sig)
                                              \cup Counterparts(m.sig)))>>
                    /\ nodes[i].strict_types => ConstructionRaised(i)
                    /\ ~nodes[i].strict_types => outcome # "ValidationError"

\* cmd(no_no_x: bool = False) under lenient typing: rejected with a warning,
\* the node goes on to read its command token
C5_Witness ==
    /\ Len(prog["Root"].members) = 2
    /\ prog["Root"].members[1].sig = <<Param(t_no_no_x, Ty("bool"), PBool(FALSE))>>
    /\ ~nodes[1].strict_types
    /\ pc = "get_cmd_callable"
    /\ DOMAIN nodes[1].commands = {t_leaf}
    /\ nodes[1].errors = <<[command |-> t_cmd, kind |-> "double_negative",
                            param |-> t_no_no_x, base |-> <<>>]>>

\* C6 as stated: a command declaring both x and no_x as booleans is always
\* rejected with an error naming both, raised whatever the policy; a command
\* in which only one of x and no_x is boolean is not rejected by this rule.
C6_AsStated ==
    \A i \in 1..Len(nodes) :
        RegistryBuilt(i) =>
            \A m \in LeafMembers(i) :
                /\ BooleanCounterparts(m.sig) # {} =>
                      /\ ConstructionRaised(i)
                      /\ \E n \in 1..Len(nodes[i].errors) :
                            /\ nodes[i].errors[n].command = m.name
                            /\ nodes[i].errors[n].kind = "ambiguous"
                /\ BooleanCounterparts(m.sig) = {} =>
                      \A n \in 1..Len(nodes[i].errors) :
                          nodes[i].errors[n].command = m.name =>
                              nodes[i].errors[n].kind # "ambiguous"

\* C6, amended: a command is rejected by this rule whenever it declares a
\* boolean no_x beside a parameter x of any type: it is never registered and
\* the one error recorded against it names both parameters, unless an earlier
\* parameter (or no_x itself, being a no_no_ name) already failed the boolean
\* naming check, whose error is recorded instead.  The rejection is raised
\* exactly under strict typing.  A command with no boolean no_x beside an x,
\* in particular one whose x is boolean and whose no_x is not, is not
\* rejected by this rule.
C6_CounterpartRejected ==
    \A i \in 1..Len(nodes) :
        RegistryBuilt(i) =>
            \A m \in LeafMembers(i) :
                /\ Counterparts(m.sig) # {} =>
                      /\ ~Registered(i, m)
                      /\ ErrorsOf(i, m.name) =
                            <<ConflictAt(m.name, m.sig,
                                  FirstPosition(DoubleNegatives(m.sig)
                                                \cup Counterparts(m.sig)))>>
                      /\ nodes[i].strict_types => ConstructionRaised(i)
                      /\ ~nodes[i].strict_types => outcome # "ValidationError"
                /\ Counterparts(m.sig) = {} =>
                      \A n \in 1..Len(nodes[i].errors) :
                          nodes[i].errors[n].command = m.name =>
                              nodes[i].errors[n].kind # "ambiguous"
                /\ (Counterparts(m.sig) \cup DoubleNegatives(m.sig) = {}
                    /\ \A j \in 1..Len(m.sig) : m.sig[j].ann.k = "type") =>
                      ErrorsOf(i, m.name) = <<>>

\* cmd(x: str, no_x: bool = False) under strict typing: rejected, naming both
C6_Witness ==
    /\ Len(prog["Root"].members) = 2
    /\ prog["Root"].members[1].sig = <<Param(t_x, Ty("str"), PEmpty),
                                       Param(t_no_x, Ty("bool"), PBool(FALSE))>>
    /\ nodes[1].strict_types
    /\ Done
    /\ outcome = "ValidationError"
    /\ nodes[1].errors = <<[command |-> t_cmd, kind |-> "ambiguous",
                            param |-> t_no_x, base |-> t_x]>>

\* the collection type a declared type names, the optional wrapper removed
Unwrapped(ann) == IF ann.k = "union" THEN ann.args[1] ELSE ann

IsCollectionAnn(ann) ==
    Unwrapped(ann).k = "generic" /\ Unwrapped(ann).t \in {"list", "set", "tuple"}

ElementOf(ann) == Unwrapped(ann).args[1]

\* the value a supplied token stands for under the element type
Convertible(elem, tok) == elem = Ty("str") \/ tok = t_10

SuppliedValue(elem, tok) == IF elem = Ty("str") THEN PStr(tok) ELSE PInt(10)

\* the tokens are occurrences of the flag, each followed by one or more
\* values of the element type
FlagOccurrences(toks, flag, elem) ==
    /\ toks # <<>>
    /\ toks[1] = flag
    /\ toks[Len(toks)] # flag
    /\ \A n \in 1..(Len(toks) - 1) : ~(toks[n] = flag /\ toks[n + 1] = flag)
    /\ \A n \in 1..Len(toks) : toks[n] # flag => Convertible(elem, toks[n])

\* the supplied values in encounter order
SuppliedValues(toks, flag, elem) ==
    [n \in 1..Len(SelectSeq(toks, LAMBDA t : t # flag)) |->
        SuppliedValue(elem, SelectSeq(toks, LAMBDA t : t # flag)[n])]

\* the claim of C7 for the collection parameter p of the leaf selected at node i
Flattened(i, p) ==
    FlagOccurrences(TokensAfter(i), Long(Dashed(p.name)), ElementOf(p.ann)) =>
        /\ outcome = "returned"
        /\ Len(calls) = 1
        /\ p.name \in DOMAIN calls[1].kwargs
        /\ calls[1].kwargs[p.name] =
              PList(SuppliedValues(TokensAfter(i), Long(Dashed(p.name)),
                                   ElementOf(p.ann)))

\* C7: flattening of repeated flags.  For every collection-typed parameter,
\* with or without a declared default, supplying its flag one or more times,
\* each time with one or more values, binds the parameter to the single flat
\* sequence of exactly the supplied values in encounter order.
C7_Flattening ==
    (Done /\ nodes[Len(nodes)].callable.kind = "method") =>
        \A j \in 1..Len(nodes[Len(nodes)].callable.sig) :
            IsCollectionAnn(nodes[Len(nodes)].callable.sig[j].ann) =>
                Flattened(Len(nodes), nodes[Len(nodes)].callable.sig[j])

\* the same statement for the parameters declared without a default, with
\* the default None or with an empty list as default
C7_WithoutDefaultValues ==
    (Done /\ nodes[Len(nodes)].callable.kind = "method") =>
        \A j \in 1..Len(nodes[Len(nodes)].callable.sig) :
            (/\ IsCollectionAnn(nodes[Len(nodes)].callable.sig[j].ann)
             /\ nodes[Len(nodes)].callable.sig[j].default
                    \in {PEmpty, PNone, PList(<<>>)}) =>
                Flattened(Len(nodes), nodes[Len(nodes)].callable.sig[j])

\* cmd(tags: Optional[List[str]] = ["x"]) invoked with `--tags a b --tags a`:
\* the declared default is kept in front of the supplied values
C7_Witness ==
    /\ argv = <<t_prog, t_cmd, Long(t_tags), t_a, t_b, Long(t_tags), t_a>>
    /\ Done
    /\ outcome = "returned"
    /\ calls[1].kwargs =
          (t_tags :> PList(<<PStr(t_x), PStr(t_a), PStr(t_b), PStr(t_a)>>))

UpperLetters ==
    <<"A", "B", "C", "D", "E", "F", "G", "H", "I", "J", "K", "L", "M",
      "N", "O", "P", "Q", "R", "S", "T", "U", "V", "W", "X", "Y", "Z">>

LowerLetters ==
    <<"a", "b", "c", "d", "e", "f", "g", "h", "i", "j", "k", "l", "m",
      "n", "o", "p", "q", "r", "s", "t", "u", "v", "w", "x", "y", "z">>

\* the lower-case form of a character
LowerCased(c) ==
    IF \E n \in 1..26 : UpperLetters[n] = c
    THEN LowerLetters[CHOOSE n \in 1..26 : UpperLetters[n] = c]
    ELSE c

\* command-name normalisation as the specification words it: underscores
\* become dashes, and the result is lower-cased unless names are case-sensitive
NormalForm(case_sensitive, name) ==
    [n \in 1..Len(name) |->
        IF name[n] = "_" THEN "-"
        ELSE IF case_sensitive THEN name[n] ELSE LowerCased(name[n])]

CaseSensitive(i) == prog[nodes[i].cls].case_sensitive_commands

StrictValidation(i) == prog[nodes[i].cls].strict_validation

\* the positions of the members node i's class declares as commands
CommandPositions(i) ==
    {n \in 1..Len(prog[nodes[i].cls].members) :
        /\ prog[nodes[i].cls].members[n].kind \in {"method", "class"}
        /\ prog[nodes[i].cls].members[n].name[1] # "_"}

MemberAt(i, n) == prog[nodes[i].cls].members[n]

\* the member passes signature validation (a nested type has no signature)
PassesValidation(m) ==
    m.kind = "class" \/ validate_command_signature(m.sig, m.name) = <<>>

\* the positions of the command members of node i that normalise to the key
PositionsOfKey(i, key) ==
    {n \in CommandPositions(i) : NormalForm(CaseSensitive(i), MemberAt(i, n).name) = key}

ValidPositionsOfKey(i, key) ==
    {n \in PositionsOfKey(i, key) : PassesValidation(MemberAt(i, n))}

Names(seq) == {seq[n] : n \in 1..Len(seq)}

\* C8 as stated: whenever two members of a node normalise to the same key
\* the collision is recorded naming both, construction raises a collision
\* error if and only if strict validation is on, and under non-strict
\* validation construction completes.
C8_AsStated ==
    \A i \in 1..Len(nodes) :
        RegistryBuilt(i) =>
            \A a, b \in CommandPositions(i) :
                (/\ a # b
                 /\ NormalForm(CaseSensitive(i), MemberAt(i, a).name)
                        = NormalForm(CaseSensitive(i), MemberAt(i, b).name)) =>
                    /\ NormalForm(CaseSensitive(i), MemberAt(i, a).name)
                            \in DOMAIN nodes[i].collisions
                    /\ {MemberAt(i, a).name, MemberAt(i, b).name} \subseteq
                          Names(nodes[i].collisions[
                                    NormalForm(CaseSensitive(i), MemberAt(i, a).name)])
                    /\ (ConstructionRaised(i) /\ outcome = "CollisionError")
                            <=> StrictValidation(i)
                    /\ ~StrictValidation(i) => ~ConstructionRaised(i)

\* C8, amended: whenever two members of a node that both pass signature
\* validation normalise to the same key, the collision is recorded under that
\* key naming both (a member whose signature is rejected takes no part in
\* collisions, and nothing else is recorded as one); construction then raises
\* a collision error if and only if strict validation is on; under non-strict
\* validation the collision is only a warning, and construction completes
\* unless a signature error is raised under strict typing.
C8_CollisionReporting ==
    \A i \in 1..Len(nodes) :
        RegistryBuilt(i) =>
            /\ \A key \in DOMAIN nodes[i].collisions :
                  /\ Cardinality(ValidPositionsOfKey(i, key)) >= 2
                  /\ Names(nodes[i].collisions[key]) =
                        {MemberAt(i, n).name : n \in ValidPositionsOfKey(i, key)}
            /\ \A a, b \in CommandPositions(i) :
                  (/\ a # b
                   /\ NormalForm(CaseSensitive(i), MemberAt(i, a).name)
                          = NormalForm(CaseSensitive(i), MemberAt(i, b).name)
                   /\ PassesValidation(MemberAt(i, a))
                   /\ PassesValidation(MemberAt(i, b))) =>
                      /\ NormalForm(CaseSensitive(i), MemberAt(i, a).name)
                              \in DOMAIN nodes[i].collisions
                      /\ (ConstructionRaised(i) /\ outcome = "CollisionError")
                              <=> StrictValidation(i)
                      /\ ~StrictValidation(i) =>
                            (ConstructionRaised(i) <=>
                                (nodes[i].strict_types /\ nodes[i].errors # <<>>))
            /\ (ConstructionRaised(i) /\ outcome = "CollisionError") =>
                  StrictValidation(i) /\ DOMAIN nodes[i].collisions # {}

\* Ab and ab under non-strict validation: recorded, construction completes
C8_Witness ==
    /\ Len(prog["Root"].members) = 2
    /\ prog["Root"].members[1] = Method(<<"a", "b">>, <<>>)
    /\ prog["Root"].members[2] = Method(<<"A", "b">>, <<>>)
    /\ ~prog["Root"].strict_validation
    /\ pc = "parse_command"
    /\ nodes[1].collisions = (<<"a", "b">> :> <<<<"A", "b">>, <<"a", "b">>>>)

\* C9: collision winner.  When two members of a node (that pass validation)
\* normalise to the same key, the registry holds for that key the member
\* declared last among them.
C9_LaterDeclaredWins ==
    \A i \in 1..Len(nodes) :
        RegistryBuilt(i) =>
            \A key \in DOMAIN nodes[i].commands :
                Cardinality(ValidPositionsOfKey(i, key)) >= 2 =>
                    nodes[i].commands[key] =
                        MemberAt(i, LastPosition(ValidPositionsOfKey(i, key)))

\* what holds instead: the registry keeps the member whose name comes last in
\* the sorted order of dir()
C9_LastInSortedOrderWins ==
    \A i \in 1..Len(nodes) :
        RegistryBuilt(i) =>
            \A key \in DOMAIN nodes[i].commands :
                /\ ValidPositionsOfKey(i, key) # {}
                /\ \E n \in ValidPositionsOfKey(i, key) :
                      /\ nodes[i].commands[key] = MemberAt(i, n)
                      /\ \A h \in ValidPositionsOfKey(i, key) :
                            h = n \/ StrLess(MemberAt(i, h).name, MemberAt(i, n).name)

\* ab declared before Ab: the registry keeps ab, the member declared first
C9_Witness ==
    /\ Len(prog["Root"].members) = 2
    /\ prog["Root"].members[1] = Method(<<"a", "b">>, <<>>)
    /\ prog["Root"].members[2] = Method(<<"A", "b">>, <<>>)
    /\ ~prog["Root"].case_sensitive_commands
    /\ pc = "parse_command"
    /\ nodes[1].commands = (<<"a", "b">> :> Method(<<"a", "b">>, <<>>))

\* node i has gone past the resolution of its command
PastResolution(i) ==
    \/ i < Len(nodes)
    \/ pc \in {"parse_cmd_args", "invoke"}
    \/ Done /\ ~RegistryRaised /\ ~CompletionRun

\* C10: normalisation.  Every registry key is the normal form of its member's
\* name (underscores to dashes, lower-cased unless the node is
\* case-sensitive); a token with the normal form of a registered member
\* resolves to that member's entry; and on a case-sensitive node two members
\* that differ only in letter case are both registered, without a collision.
C10_Normalization ==
    \A i \in 1..Len(nodes) :
        RegistryBuilt(i) =>
            /\ \A key \in DOMAIN nodes[i].commands :
                  /\ key = NormalForm(CaseSensitive(i), nodes[i].commands[key].name)
                  /\ (/\ PastResolution(i)
                      /\ HasToken(i)
                      /\ NormalForm(CaseSensitive(i), TokenAt(i)) = key) =>
                        /\ nodes[i].callable = nodes[i].commands[key]
                        /\ i = Len(nodes) => outcome # "exit1"
            /\ CaseSensitive(i) =>
                  \A a, b \in CommandPositions(i) :
                      (/\ a # b
                       /\ PassesValidation(MemberAt(i, a))
                       /\ PassesValidation(MemberAt(i, b))
                       /\ NormalForm(FALSE, MemberAt(i, a).name)
                              = NormalForm(FALSE, MemberAt(i, b).name)) =>
                          /\ Registered(i, MemberAt(i, a))
                          /\ Registered(i, MemberAt(i, b))
                          /\ nodes[i].collisions = <<>>

\* the member A_B of a case-insensitive node is reached by the token a_b
C10_Witness ==
    /\ prog["Root"].members = <<Method(<<"A", "_", "B">>, <<>>)>>
    /\ ~prog["Root"].case_sensitive_commands
    /\ argv = <<t_prog, <<"a", "_", "b">>>>
    /\ pc = "parse_cmd_args"
    /\ nodes[1].parsed_command = <<"a", "-", "b">>
    /\ nodes[1].callable.name = <<"A", "_", "B">>

\* the positions of the commands of node i whose signature is rejected
Offending(i) ==
    {n \in CommandPositions(i) : ~PassesValidation(MemberAt(i, n))}

\* an error recorded by node i names the command and one of its parameters
ErrorNames(i, m) ==
    \E e \in Names(nodes[i].errors) :
        /\ e.command = m.name
        /\ \E j \in 1..Len(m.sig) : e.param = m.sig[j].name

\* a collision error is raised by node i
CollisionFatal(i) == DOMAIN nodes[i].collisions # {} /\ StrictValidation(i)

C12_LenientWholeTree ==
    ~nodes[1].strict_types =>
        /\ \A i \in 1..Len(nodes) : ~nodes[i].strict_types
        /\ outcome # "ValidationError"
        /\ (/\ Done
            /\ Len(nodes) = 2
            /\ HasToken(2)
            /\ \E n \in CommandPositions(2) :
                  /\ PassesValidation(MemberAt(2, n))
                  /\ MemberAt(2, n).kind = "method"
                  /\ MemberAt(2, n).sig = <<>>
                  /\ NormalForm(CaseSensitive(2), MemberAt(2, n).name)
                        = NormalForm(CaseSensitive(2), TokenAt(2))
                  /\ Cardinality(ValidPositionsOfKey(2,
                        NormalForm(CaseSensitive(2), TokenAt(2)))) = 1) =>
              Len(calls) = 1

\* what holds instead: the policy given to the root is not handed down, every
\* node below the root is built under strict typing
C12_ChildrenAlwaysStrict ==
    \A i \in 2..Len(nodes) : nodes[i].strict_types

\* lenient root, `prog dump leaf`: the subtree's registry construction raises
\* on the sibling command's annotation and the valid leaf is never called
C12_Witness ==
    /\ prog = LenientTreeProgram
    /\ argv = <<t_prog, t_dump, t_leaf>>
    /\ ~nodes[1].strict_types
    /\ Len(nodes) = 2
    /\ Done
    /\ outcome = "ValidationError"
    /\ calls = <<>>

\* node j has read or resolved nothing of the command line
NothingParsed(j) ==
    /\ nodes[j].command_slice = <<>>
    /\ nodes[j].parsed_command = <<>>
    /\ nodes[j].callable = NoMember
    /\ nodes[j].args_slice = <<>>
    /\ nodes[j].callable_args = <<>>

\* C13 as stated: under strict typing, when registry construction raises a
\* validation error no command token has been resolved at any level and no
\* leaf arguments have been parsed.
C13_AsStated ==
    (nodes[1].strict_types /\ Done /\ outcome = "ValidationError") =>
        /\ \A j \in 1..Len(nodes) : NothingParsed(j)
        /\ calls = <<>>

\* C13, amended: under strict typing, a validation error found while a node's
\* registry is built aborts the run before that node reads or resolves its
\* command token, and before any leaf arguments are parsed or any handler is
\* called; the nodes above it have by then each resolved their own token to
\* the subtree that led to it, a node's registry being built when the
\* dispatch descends into it.
C13_AbortBeforeParsing ==
    (nodes[1].strict_types /\ Done /\ outcome = "ValidationError") =>
        /\ NothingParsed(Len(nodes))
        /\ calls = <<>>
        /\ \A j \in 1..(Len(nodes) - 1) :
              /\ nodes[j].callable.kind = "class"
              /\ nodes[j].args_slice = <<>>
              /\ nodes[j].callable = nodes[j].commands[nodes[j].parsed_command]

\* strict root, `prog dump leaf`: the root has resolved `dump`, the subtree's
\* registry raises on its rejected command with nothing read at its level
C13_Witness ==
    /\ prog = SubtreeRejectedProgram
    /\ argv = <<t_prog, t_dump, t_leaf>>
    /\ nodes[1].strict_types
    /\ Done
    /\ outcome = "ValidationError"
    /\ Len(nodes) = 2
    /\ nodes[1].callable.kind = "class"
    /\ NothingParsed(2)

\* the schema built for the leaf node i resolved
ResolvedSchema(i) ==
    get_cmd_parser(nodes[i].callable.sig, prog[nodes[i].cls].auto_disable_flags, {})

\* the declared parameters of a signature that carry the name
Declared(sig, name) == {j \in 1..Len(sig) : sig[j].name = name}

\* requiredness of the actions of a built schema
RequirednessOf(sig, schema) ==
    \A j \in 1..Len(schema.actions) :
        /\ schema.actions[j].action \in {"store_true", "store_false"} =>
              ~schema.actions[j].required
        /\ schema.actions[j].action \in {"store", "append"} =>
              (schema.actions[j].required <=>
                  \E n \in Declared(sig, schema.actions[j].dest) :
                      sig[n].default = PEmpty)

\* C14: requiredness of a built parameter spec.  A scalar or collection
\* parameter is required if and only if no default was declared for it; a
\* boolean parameter, a disable flag and a boolean without a declared default
\* included, is never required.
C14_Requiredness ==
    \A i \in 1..Len(nodes) :
        nodes[i].callable.kind = "method" =>
            /\ \A n \in 1..Len(nodes[i].callable.sig) :
                  CmdArg(nodes[i].callable.sig[n]).ok =>
                      /\ CmdArg(nodes[i].callable.sig[n]).required <=>
                            /\ ~IsBoolAnn(nodes[i].callable.sig[n].ann)
                            /\ nodes[i].callable.sig[n].default = PEmpty
                      /\ IsBoolAnn(nodes[i].callable.sig[n].ann) <=>
                            CmdArg(nodes[i].callable.sig[n]).action
                                \in {"store_true", "store_false"}
            /\ ResolvedSchema(i).status = "ok" =>
                  RequirednessOf(nodes[i].callable.sig, ResolvedSchema(i))

\* cmd(color: bool) without a default, run with no flag: nothing is missing,
\* the handler is called
C14_Witness ==
    /\ nodes[1].callable.sig = <<Param(t_color, Ty("bool"), PEmpty)>>
    /\ argv = <<t_prog, t_cmd>>
    /\ Done
    /\ outcome = "returned"
    /\ Len(calls) = 1
    /\ ~ResolvedSchema(1).actions[1].required

\* the flags of a command in the order of its parameter list, an automatic
\* disable flag standing right after its parameter
FlagNames(sig, auto_disable_flags) ==
    [n \in 1..Len(get_arg_properties(sig, 1, auto_disable_flags)) |->
        get_arg_properties(sig, 1, auto_disable_flags)[n].param.name]

\* the option strings the claim gives the j-th flag
ExpectedOptions(names, j) ==
    IF \E h \in 1..(j - 1) : names[h][1] = names[j][1]
    THEN <<Long(Dashed(names[j]))>>
    ELSE <<Long(Dashed(names[j])), <<"-", names[j][1]>>>>

NamedAsExpected(names, schema) ==
    /\ Len(schema.actions) = Len(names)
    /\ \A j \in 1..Len(names) :
          schema.actions[j].option_strings = ExpectedOptions(names, j)

\* C15: option naming within one command.  Every flag has the long form "--"
\* and its name with dashes for underscores; it also has the short form "-"
\* and its first letter if and only if no earlier flag of the command's
\* parameter list claimed that letter.
C15_OptionNaming ==
    \A i \in 1..Len(nodes) :
        (nodes[i].callable.kind = "method" /\ ResolvedSchema(i).status = "ok") =>
            /\ NamedAsExpected(FlagNames(nodes[i].callable.sig,
                                         prog[nodes[i].cls].auto_disable_flags),
                               ResolvedSchema(i))
            /\ (pc = "invoke" \/ Done) =>
                  nodes[i].short_options =
                      {<<"-", nodes[i].callable.sig[n].name[1]>> :
                            n \in 1..Len(nodes[i].callable.sig)}
                      \cup {<<"-", "n">> :
                            n \in DualFlagParams(nodes[i].callable.sig)
                                \cap {h \in 1..Len(nodes[i].callable.sig) :
                                        prog[nodes[i].cls].auto_disable_flags}}

\* cmd(cache: Optional[bool] = True, color: bool = False): --cache/-c,
\* --no-cache/-n, and --color alone, its letter being taken
C15_Witness ==
    /\ Len(nodes[1].callable.sig) = 2
    /\ nodes[1].callable.sig[1].name = t_cache
    /\ nodes[1].callable.sig[2].name = t_color
    /\ prog["Root"].auto_disable_flags
    /\ pc = "invoke"
    /\ Len(ResolvedSchema(1).actions) = 3
    /\ ResolvedSchema(1).actions[1].option_strings = <<Long(t_cache), <<"-", "c">>>>
    /\ ResolvedSchema(1).actions[3].option_strings = <<Long(t_color)>>
    /\ nodes[1].short_options = {<<"-", "c">>, <<"-", "n">>}

\* the option strings and requiredness of the actions of a schema, in order
Options(actions) ==
    [j \in 1..Len(actions) |->
        [option_strings |-> actions[j].option_strings,
         required |-> actions[j].required]]

\* a first build of the schema of a command of node i
FirstBuild(i, sig) == get_cmd_parser(sig, prog[nodes[i].cls].auto_disable_flags, {})

\* the root's completion parser has been built
MirrorBuilt == Done /\ outcome = "completed"

\* C16: the short-letter tracker resets per command.  A schema built on a
\* node after the schema of a sibling command, or after the same command's
\* schema, has the option strings (long and short), the number of options and
\* the requiredness of a first build.
C16_TrackerResets ==
    /\ MirrorBuilt =>
          \A k \in DOMAIN mirror :
              mirror[k].kind = "leaf" =>
                  Options(mirror[k].actions)
                      = Options(FirstBuild(1, nodes[1].commands[k].sig).actions)
    /\ \A i \in 1..Len(nodes) :
          (/\ nodes[i].callable.kind = "method"
           /\ pc = "invoke"
           /\ ResolvedSchema(i).status = "ok") =>
              Options(get_cmd_parser(nodes[i].callable.sig,
                                     prog[nodes[i].cls].auto_disable_flags,
                                     nodes[i].short_options).actions)
                  = Options(ResolvedSchema(i).actions)

\* what holds instead: the tracker of a node is never reset, so the schemas
\* built on one node share it and a letter is granted once per node
C16_TrackerSharedByNode ==
    MirrorBuilt =>
        \A k1, k2 \in DOMAIN mirror :
            \A j1 \in 1..Len(mirror[k1].actions), j2 \in 1..Len(mirror[k2].actions) :
                (k1 # k2 /\ Len(mirror[k1].actions[j1].option_strings) = 2
                         /\ Len(mirror[k2].actions[j2].option_strings) = 2) =>
                    mirror[k1].actions[j1].option_strings[2]
                        # mirror[k2].actions[j2].option_strings[2]

\* cmd(cache) and config(count) mirrored on one node: cmd is built first and
\* takes -c, config is left with --count alone
C16_Witness ==
    /\ prog = CompletionProgram(<<Param(t_format, Ty("str"), PStr(t_text))>>)
    /\ MirrorBuilt
    /\ mirror[t_cmd].actions[1].option_strings = <<Long(t_cache), <<"-", "c">>>>
    /\ mirror[t_config].actions[1].option_strings = <<Long(t_count)>>
    /\ FirstBuild(1, nodes[1].commands[t_config].sig).actions[1].option_strings
          = <<Long(t_count), <<"-", "c">>>>

\* the flag occurs among the tokens
Supplied(toks, flag) == \E n \in 1..Len(toks) : toks[n] = flag

\* the value tokens that follow the flag, up to the next option or the end
ValuesOf(toks, flag) ==
    SubSeq(toks,
           FirstPosition({n \in 1..Len(toks) : toks[n] = flag}) + 1,
           FirstPosition({n \in 1..(Len(toks) + 1) :
                /\ n > FirstPosition({h \in 1..Len(toks) : toks[h] = flag})
                /\ (n = Len(toks) + 1 \/ OptionLike(toks[n]))}) - 1)

\* the text is a decimal numeral
Numeric(tok) == tok = t_10

TextValues(toks) == [n \in 1..Len(toks) |-> PStr(toks[n])]

\* the bindings the typed command is called with
TypedBindings(toks, kwargs) ==
    /\ kwargs[t_name] = PStr(ValuesOf(toks, Long(t_name))[1])
    /\ kwargs[t_age] = PInt(10)
    /\ kwargs[t_verbose] = PBool(Supplied(toks, Long(t_verbose)))
    /\ Supplied(toks, Long(t_tags)) =>
          /\ t_tags \in DOMAIN kwargs
          /\ kwargs[t_tags] = PList(TextValues(ValuesOf(toks, Long(t_tags))))

\* C17: typed end-to-end bindings.  For the leaf cmd(name: str, age: int,
\* tags: List[str] = None, verbose: bool = False), every supplied flag binds
\* its parameter to the parsed value: the text for name, the integer for age,
\* the sequence of the values for tags, true for a supplied verbose; an age
\* that is no numeral ends in exit status 2 without a call.
C17_TypedBindings ==
    \A i \in 1..Len(nodes) :
        (/\ nodes[i].callable.kind = "method"
         /\ nodes[i].callable.sig = TypedSignature
         /\ Done) =>
            IF /\ Supplied(TokensAfter(i), Long(t_age))
               /\ ~Numeric(ValuesOf(TokensAfter(i), Long(t_age))[1])
            THEN outcome = "exit2" /\ calls = <<>>
            ELSE IF /\ Supplied(TokensAfter(i), Long(t_age))
                    /\ Supplied(TokensAfter(i), Long(t_name))
            THEN /\ outcome = "returned"
                 /\ Len(calls) = 1
                 /\ calls[1].name = t_cmd
                 /\ TypedBindings(TokensAfter(i), calls[1].kwargs)
            ELSE outcome = "exit2" /\ calls = <<>>

\* cmd --name a --age 10 --tags a b --verbose
C17_Witness ==
    /\ argv = <<t_prog, t_cmd, Long(t_name), t_a, Long(t_age), t_10,
                Long(t_tags), t_a, t_b, Long(t_verbose)>>
    /\ Done
    /\ outcome = "returned"
    /\ Len(calls) = 1
    /\ calls[1].kwargs = (t_name :> PStr(t_a) @@ t_age :> PInt(10)
                          @@ t_tags :> PList(<<PStr(t_a), PStr(t_b)>>)
                          @@ t_verbose :> PBool(TRUE))

\* no token is an option string of an action that stores into the parameter
Unsupplied(schema, toks, name) ==
    \A j \in 1..Len(schema.actions) :
        schema.actions[j].dest = name =>
            \A n \in 1..Len(toks) :
                \A h \in 1..Len(schema.actions[j].option_strings) :
                    toks[n] # schema.actions[j].option_strings[h]

\* the value the handler sees for a parameter: the keyword argument, or the
\* declared default Python supplies for an absent keyword
Received(kwargs, p) == IF p.name \in DOMAIN kwargs THEN kwargs[p.name] ELSE p.default

\* C18: unsupplied optional parameters.  After a successful parse no binding
\* holds the unset value, and every parameter with a declared default that
\* was not supplied reaches the handler with exactly that default, whatever
\* its kind.
C18_AsStated ==
    \A i \in 1..Len(nodes) :
        (/\ nodes[i].callable.kind = "method"
         /\ Done
         /\ outcome = "returned"
         /\ Len(calls) = 1) =>
            /\ \A k \in DOMAIN calls[1].kwargs : calls[1].kwargs[k] # PNone
            /\ \A n \in 1..Len(nodes[i].callable.sig) :
                  (/\ nodes[i].callable.sig[n].default # PEmpty
                   /\ Unsupplied(ResolvedSchema(i), TokensAfter(i),
                                 nodes[i].callable.sig[n].name)) =>
                        Received(calls[1].kwargs, nodes[i].callable.sig[n])
                            = nodes[i].callable.sig[n].default

\* cmd(verbose: Optional[bool] = None) run without a flag is called with
\* verbose = False
C18_Witness ==
    /\ argv = <<t_prog, t_cmd>>
    /\ Done
    /\ outcome = "returned"
    /\ Len(calls) = 1
    /\ nodes[Len(nodes)].callable.sig = <<Param(t_verbose, Optional(Ty("bool")), PNone)>>
    /\ calls[1].kwargs = (t_verbose :> PBool(FALSE))

\* node i has run line 431 of its constructor
PastMerge(i) ==
    \/ i < Len(nodes)
    \/ pc \in {"parse_command", "get_cmd_callable", "parse_cmd_args", "invoke"}
    \/ Done /\ outcome \in {"returned", "TypeError", "exit0", "exit1", "exit2", "completed"}

\* the entries the class of node j declares
OwnEntries(j) ==
    IF prog[nodes[j].cls].arg_desc.set THEN prog[nodes[j].cls].arg_desc.map ELSE <<>>

\* the nearest node at or above node i whose class declares the key
Nearest(i, key) ==
    CHOOSE j \in 1..i :
        /\ key \in DOMAIN OwnEntries(j)
        /\ \A h \in (j + 1)..i : key \notin DOMAIN OwnEntries(h)

\* C19: help-text inheritance.  The mapping of a constructed node is its
\* parent's merged mapping overridden key by key with its own class's
\* entries; so it holds exactly the keys declared by the node or an ancestor,
\* each with the text of the nearest declaring node.  This stays so for
\* every node for the rest of the run (neither the parent's nor the child's
\* mapping changes afterwards), and the class's declared mapping is the one
\* the program declared.
C19_HelpInheritance ==
    \A i \in 1..Len(nodes) :
        PastMerge(i) =>
            /\ nodes[i].has_arg_desc
            /\ nodes[i].arg_desc.set
            /\ nodes[i].parent = i - 1
            /\ nodes[i].arg_desc.map =
                  Override(IF i > 1 THEN nodes[i - 1].arg_desc.map ELSE <<>>,
                           OwnEntries(i))
            /\ DOMAIN nodes[i].arg_desc.map =
                  UNION {DOMAIN OwnEntries(j) : j \in 1..i}
            /\ \A key \in DOMAIN nodes[i].arg_desc.map :
                  nodes[i].arg_desc.map[key] = OwnEntries(Nearest(i, key))[key]

\* root declares format and count, Dump overrides count, Deep overrides
\* format: the third node holds Deep's format and Dump's count
C19_Witness ==
    /\ Len(nodes) = 3
    /\ Done
    /\ outcome = "returned"
    /\ OwnEntries(1) = (t_format :> "root" @@ t_count :> "root")
    /\ OwnEntries(2) = (t_count :> "dump")
    /\ OwnEntries(3) = (t_format :> "deep")
    /\ nodes[3].arg_desc = Desc(t_format :> "deep" @@ t_count :> "dump")
    /\ nodes[2].arg_desc = Desc(t_format :> "root" @@ t_count :> "dump")
    /\ nodes[1].arg_desc = Desc(t_format :> "root" @@ t_count :> "root")

\* the constructor wrapped exactly once
WrappedOnce == <<"__init__", "_patched_init">>

\* C20: install and uninstall of the completion adapter.  After any sequence
\* of install() and uninstall() calls the node constructor is the original
\* or the original wrapped exactly once, and it is the original whenever no
\* saved constructor is held; a further install() changes nothing once
\* installed, a further uninstall() yields the original constructor, and
\* without the completion library install() changes nothing.
C20_InstallUninstall ==
    /\ adapter.init \in {OriginalInit, WrappedOnce}
    /\ adapter.original_init \in {None, OriginalInit}
    /\ (adapter.original_init = None) <=> (adapter.init = OriginalInit)
    /\ install(install(adapter)) = install(adapter)
    /\ install(adapter).init \in {OriginalInit, WrappedOnce}
    /\ uninstall(adapter).init = OriginalInit
    /\ uninstall(adapter).original_init = None
    /\ uninstall(install(adapter)).init = OriginalInit
    /\ ~adapter.available => install(adapter) = adapter /\ adapter.init = OriginalInit

\* the library is present and the constructor is wrapped after several calls
C20_Witness ==
    /\ adapter.available
    /\ adapter.calls >= 2
    /\ adapter.init = WrappedOnce
    /\ adapter.original_init = OriginalInit

\* C21: tree-node invariant along a dispatch chain.  The root has level 1,
\* no parent and is its own top; every node created on descent has its
\* parent's level plus one, has as parent the node that selected it (whose
\* resolved command is the nested type the child is an instance of), and has
\* its parent's top, so every node of the chain has the root as top.
C21_TreeNodeInvariant ==
    /\ nodes[1].level = 1
    /\ nodes[1].parent = 0
    /\ nodes[1].top = 1
    /\ \A i \in 2..Len(nodes) :
          /\ nodes[i].parent = i - 1
          /\ nodes[i].level = nodes[nodes[i].parent].level + 1
          /\ nodes[i].top = nodes[nodes[i].parent].top
          /\ nodes[i].top = 1
          /\ nodes[nodes[i].parent].callable.kind = "class"
          /\ nodes[nodes[i].parent].callable.cls = nodes[i].cls

\* `prog dump dump config`: a chain of three nodes
C21_Witness ==
    /\ Len(nodes) = 3
    /\ Done
    /\ nodes[3].level = 3
    /\ nodes[3].parent = 2
    /\ nodes[3].top = 1
    /\ nodes[2].top = 1
    /\ nodes[3].cls = "Deep"

\* the one parameter of the command selected at node i, when it has just one
OneParam(i) ==
    /\ nodes[i].callable.kind = "method"
    /\ Len(nodes[i].callable.sig) = 1

ParamOf(i) == nodes[i].callable.sig[1]

\* a list-, set- or tuple-like type that carries type parameters or is the
\* typing module's alias without parameters
ParameterisedCollection(a) == a.k = "generic" /\ a.t \in {"list", "set", "tuple"}

\* the built-in list, set or tuple type itself
BareCollection(a) == a.k = "type" /\ a.t \in {"list", "set", "tuple"}

\* the type inside an optional wrapper, or the type itself
InsideOptional(a) ==
    IF a.k = "union" /\ Len(a.args) = 2 /\ a.args[2] = Ty("NoneType") THEN a.args[1]
    ELSE a

\* the parser each element type of the explored collections resolves to
ElementParsers ==
    {<<Ty("int"), "int">>, <<Ty("str"), "str">>, <<Optional(Ty("int")), "int">>,
     <<Generic("list", <<Ty("int")>>), "int">>}

ExpectedElementParser(a) ==
    IF a.args = <<>> THEN "str"
    ELSE (CHOOSE e \in ElementParsers : e[1] = a.args[1])[2]

HasExpectedElement(a) ==
    a.args = <<>> \/ \E e \in ElementParsers : e[1] = a.args[1]

\* the parameter is a repeated flag with the element parser expected of the
\* collection type c, and each occurrence takes at least one value
IsCollectionKind(i, c) ==
    /\ CmdArg(ParamOf(i)).ok
    /\ CmdArg(ParamOf(i)).action = "append"
    /\ CmdArg(ParamOf(i)).parser = ExpectedElementParser(c)
    /\ (Done /\ TokensAfter(i) = <<Long(t_x)>>) => outcome = "exit2"
    /\ (Done /\ TokensAfter(i) = <<Long(t_x), t_10>>) =>
          /\ outcome = "returned"
          /\ calls[1].kwargs[t_x] =
                PList(<<IF ExpectedElementParser(c) = "int" THEN PInt(10)
                        ELSE PStr(t_10)>>)

\* the parameter stores one value read by the literal-structure evaluator
IsLiteralValue(i) ==
    /\ CmdArg(ParamOf(i)).ok
    /\ CmdArg(ParamOf(i)).action = "store"
    /\ CmdArg(ParamOf(i)).parser = "literal_eval"
    /\ (Done /\ TokensAfter(i) = <<Long(t_x), t_10>>) =>
          outcome = "returned" /\ calls[1].kwargs[t_x] = PInt(10)
    /\ (Done /\ TokensAfter(i) = <<Long(t_x), t_a>>) => outcome = "exit2"

\* C22 as stated: every list-, set- or tuple-like declared type, with or
\* without type parameters and also inside an optional, is a Collection.
C22_AsStated ==
    \A i \in 1..Len(nodes) :
        (/\ OneParam(i)
         /\ \/ ParameterisedCollection(InsideOptional(ParamOf(i).ann))
            \/ BareCollection(InsideOptional(ParamOf(i).ann))
         /\ HasExpectedElement(InsideOptional(ParamOf(i).ann))) =>
            IsCollectionKind(i, InsideOptional(ParamOf(i).ann))

\* C22, amended: every list-, set- or tuple-like declared type that carries
\* type parameters, or is the typing alias without parameters, also inside an
\* optional, is a Collection: a repeated flag with at least one value per
\* occurrence, whose element parser is the resolution of the first type
\* parameter, or text when there is none.  The bare built-in list, set and
\* tuple types, also inside an optional, are a single stored value read by
\* the literal-structure evaluator.
C22_CollectionKind ==
    \A i \in 1..Len(nodes) :
        OneParam(i) =>
            /\ (/\ ParameterisedCollection(InsideOptional(ParamOf(i).ann))
                /\ HasExpectedElement(InsideOptional(ParamOf(i).ann))) =>
                  IsCollectionKind(i, InsideOptional(ParamOf(i).ann))
            /\ BareCollection(InsideOptional(ParamOf(i).ann)) => IsLiteralValue(i)

\* cmd(x: Optional[List[int]] = None) run with `--x 10`
C22_Witness ==
    /\ Len(nodes) = 1
    /\ OneParam(1)
    /\ ParamOf(1).ann = Optional(Generic("list", <<Ty("int")>>))
    /\ Done
    /\ outcome = "returned"
    /\ calls[1].kwargs = (t_x :> PList(<<PInt(10)>>))

\* a mapping type, bare or with type parameters
MappingType(a) == a.t = "dict" /\ a.k \in {"type", "generic"}

\* C23: mapping types.  Every dict-like declared type, bare or carrying type
\* parameters, is a single stored value parsed by the literal-structure
\* evaluator applied to the whole flag value, never by a parser taken from
\* its type parameters.
C23_MappingLiteral ==
    \A i \in 1..Len(nodes) :
        (OneParam(i) /\ MappingType(ParamOf(i).ann)) => IsLiteralValue(i)

\* cmd(x: Dict[str, int]) run with `--x 10` is called with the text "10":
\* the parser is that of the key type
C23_Witness ==
    /\ Len(nodes) = 1
    /\ OneParam(1)
    /\ ParamOf(1).ann = Generic("dict", <<Ty("str"), Ty("int")>>)
    /\ CmdArg(ParamOf(1)).parser = "str"
    /\ Done
    /\ outcome = "returned"
    /\ calls[1].kwargs = (t_x :> PStr(t_10))

\* the non-null alternatives of a union
Alternatives(a) == IF a.k = "union" THEN non_none_args(a.args) ELSE <<>>

\* what a parameter resolves to: whether it resolves, its kind and its parser
Resolution(p) ==
    [ok |-> CmdArg(p).ok, action |-> CmdArg(p).action, parser |-> CmdArg(p).parser]

\* the parameter declared with another type
Retyped(p, a) == [p EXCEPT !.ann = a]

\* C24: optional and union unwrapping.  An optional wrapper around T resolves
\* to the same kind and parser as T (Boolean for boolean, Collection for a
\* collection, Scalar otherwise); a union of several non-null alternatives
\* resolves as its first alternative, without an error.
C24_UnionUnwrapping ==
    \A i \in 1..Len(nodes) :
        (OneParam(i) /\ Alternatives(ParamOf(i).ann) # <<>>) =>
            /\ Resolution(ParamOf(i)) =
                  Resolution(Retyped(ParamOf(i), Alternatives(ParamOf(i).ann)[1]))
            /\ CmdArg(ParamOf(i)).ok
            /\ Alternatives(ParamOf(i).ann)[1] = Ty("bool") =>
                  /\ CmdArg(ParamOf(i)).action \in {"store_true", "store_false"}
                  /\ (/\ ParamOf(i).name = t_x
                      /\ Done
                      /\ TokensAfter(i) = <<Long(t_x)>>) =>
                        outcome = "returned" /\ calls[1].kwargs[t_x] = PBool(TRUE)

\* cmd(x: Union[bool, int]) run with `--x`: the flag wants a value
C24_Witness ==
    /\ Len(nodes) = 1
    /\ OneParam(1)
    /\ ParamOf(1).ann = Union(<<Ty("bool"), Ty("int")>>)
    /\ CmdArg(ParamOf(1)).action = "store"
    /\ CmdArg(ParamOf(1)).parser = "bool"
    /\ argv = <<t_prog, t_cmd, Long(t_x)>>
    /\ Done
    /\ outcome = "exit2"

\* the leaf commands of node i that declare exactly one parameter
OneParamMembers(i) == {m \in LeafMembers(i) : Len(m.sig) = 1}

\* the command is rejected with a reported type error: never registered, its
\* errors recorded against the parameter; construction is aborted under
\* strict typing, and under lenient typing the errors are a warning
RejectedWithTypeError(i, m) ==
    /\ ~CmdArg(m.sig[1]).ok
    /\ ~Registered(i, m)
    /\ ErrorsOf(i, m.name) # <<>>
    /\ \A n \in 1..Len(ErrorsOf(i, m.name)) :
          ErrorsOf(i, m.name)[n].param = m.sig[1].name
    /\ nodes[i].strict_types => ConstructionRaised(i)
    /\ ~nodes[i].strict_types =>
          ~(ConstructionRaised(i) /\ outcome = "ValidationError")

\* the command is registered with a parameter of the given kind and parser
AcceptedWith(i, m, action, parser) ==
    /\ CmdArg(m.sig[1]).ok
    /\ CmdArg(m.sig[1]).action = action
    /\ CmdArg(m.sig[1]).parser = parser
    /\ Registered(i, m)
    /\ ErrorsOf(i, m.name) = <<>>

\* the parser of the built-in type a text names
BuiltinParser(t) == IF t \in AST_TYPES THEN "literal_eval" ELSE t

OptionStrings(actions) == [j \in 1..Len(actions) |-> actions[j].option_strings]

\* the entries mirror the registry `commands` of a node of class cls: one
\* entry per key, a leaf entry with the option strings of the schema the
\* dispatcher builds for that leaf on a fresh node, a subtree entry mirroring
\* the registry of the nested type in the same way
RECURSIVE Faithful(_, _, _)
Faithful(entries, cls, commands) ==
    /\ DOMAIN entries = DOMAIN commands
    /\ \A k \in DOMAIN commands :
          IF commands[k].kind = "class"
          THEN /\ entries[k].kind = "tree"
               /\ Faithful(entries[k].entries, prog[commands[k].cls],
                           init_commands(prog[commands[k].cls], TRUE).commands)
          ELSE /\ entries[k].kind = "leaf"
               /\ OptionStrings(entries[k].actions) =
                     OptionStrings(get_cmd_parser(commands[k].sig,
                                                  cls.auto_disable_flags, {}).actions)

\* C26: the completion mirror is a faithful static mirror of the command
\* tree.  It has exactly one sub-entry per registry key, a subtree entry is
\* mirrored recursively, and each leaf entry has exactly the option strings
\* of the schema the dispatcher builds when that leaf is selected.
C26_FaithfulMirror ==
    MirrorBuilt => Faithful(mirror, prog[nodes[1].cls], nodes[1].commands)

\* the mirror has one entry per key and mirrors the subtree, but its entry
\* for config lacks the short option the dispatcher gives --count
C26_Witness ==
    /\ prog = CompletionProgram(<<Param(t_format, Ty("str"), PStr(t_text))>>)
    /\ MirrorBuilt
    /\ DOMAIN mirror = DOMAIN nodes[1].commands
    /\ mirror[t_dump].kind = "tree"
    /\ DOMAIN mirror[t_dump].entries = {t_leaf}
    /\ OptionStrings(mirror[t_config].actions) = <<<<Long(t_count)>>>>
    /\ OptionStrings(get_cmd_parser(nodes[1].commands[t_config].sig, TRUE, {}).actions)
          = <<<<Long(t_count), <<"-", "c">>>>>>


\* the node whose leaf handler the call c was made from
CallerOf(c) == CHOOSE i \in 1..Len(nodes) : nodes[i].level = calls[c].level

\* C27: bindings fit the handler.  Whenever a leaf handler is invoked, every
\* key of the keyword bindings names a parameter of the handler's signature
\* and every parameter declared without a default has a key; handlers that
\* declare a boolean disable parameter no_x are included.
C27_BindingsFit ==
    \A c \in 1..Len(calls) :
        /\ DOMAIN calls[c].kwargs \subseteq ParamNames(nodes[CallerOf(c)].callable.sig)
        /\ \A n \in 1..Len(nodes[CallerOf(c)].callable.sig) :
              nodes[CallerOf(c)].callable.sig[n].default = PEmpty =>
                  nodes[CallerOf(c)].callable.sig[n].name \in DOMAIN calls[c].kwargs

\* cmd(no_cache: bool = False) run as `prog cmd --no-cache`: the parse
\* succeeds, the handler is called with the key cache it does not declare,
\* and Python raises TypeError
C27_Witness ==
    /\ Done
    /\ outcome = "TypeError"
    /\ Len(calls) = 1
    /\ nodes[CallerOf(1)].callable.sig = <<Param(t_no_cache, Ty("bool"), PBool(FALSE))>>
    /\ \E n \in 1..Len(argv) : argv[n] = Long(<<"n", "o", "-", "c", "a", "c", "h", "e">>)
    /\ calls[1].kwargs = (t_cache :> PBool(FALSE)) @@ (t_no_cache :> PBool(FALSE))
    /\ ~calls[1].bound

\* the option strings the actions declare, one entry per declaration, after
\* the two the parsing primitive declares for its help action
RECURSIVE DeclaredOptions(_, _)
DeclaredOptions(actions, j) ==
    IF j > Len(actions) THEN <<>>
    ELSE actions[j].option_strings \o DeclaredOptions(actions, j + 1)

AllSpellings(actions) ==
    <<<<"-", "h">>, <<"-", "-", "h", "e", "l", "p">>>> \o DeclaredOptions(actions, 1)

Distinct(seq) == \A a, b \in 1..Len(seq) : seq[a] = seq[b] => a = b

UniqueSpellings(schema) == schema.status = "ok" /\ Distinct(AllSpellings(schema.actions))

\* C28: flag spellings are unique within a command schema.  For every handler
\* signature that passed registry validation and was selected, schema
\* construction succeeds and no option string, long or short, is declared
\* twice, the built-in -h/--help and the synthetic disable flags included.
C28_UniqueSpellings ==
    (LeafSchemaBuilt /\ ~CompletionRun) => UniqueSpellings(ResolvedSchema(Len(nodes)))

\* cmd(hidden: bool = True) was registered, and building its schema stops at
\* the short option -h the help action already holds
C28_Witness ==
    /\ Done
    /\ outcome = "ArgumentError"
    /\ nodes[1].errors = <<>>
    /\ nodes[1].collisions = <<>>
    /\ nodes[1].callable.kind = "method"
    /\ nodes[1].callable.sig = <<Param(t_hidden, Ty("bool"), PBool(TRUE))>>
    /\ ResolvedSchema(1).status = "ArgumentError"
    /\ get_options_for_arg(t_hidden, {}).options = <<Long(t_hidden), <<"-", "h">>>>

\* the run ended in one leaf invocation
EndedInvoked == Len(calls) = 1 /\ outcome \in {"returned", "TypeError"}

\* the run ended in the unrecognized-command exit
EndedUnrecognized == calls = <<>> /\ outcome = "exit1"

\* the run ended in an exit of the parsing primitive (usage error or help)
EndedParseExit == calls = <<>> /\ outcome \in {"exit0", "exit2"}

\* the run ended in a registry-construction error
EndedRegistryError == calls = <<>> /\ RegistryRaised

\* the run ended in an uncaught error raised while the selected leaf's schema
\* was built or its arguments were parsed
EndedSchemaCrash == calls = <<>> /\ outcome \in {"ArgumentError", "AttributeError"}

\* how many steps of its constructor a node still has before it hands over
StepsLeft ==
    CASE pc = "construct" -> 5
      [] pc = "parse_command" -> 4
      [] pc = "get_cmd_callable" -> 3
      [] pc = "parse_cmd_args" -> 2
      [] pc = "invoke" -> 1
      [] OTHER -> 0

\* the variant of the call chain: the argv tokens no node has been created
\* for, five steps each, then the steps the current node has left; before
\* the root is created, the calls the script may still make
Variant ==
    CASE Done -> 0
      [] pc = "setup" ->
            5 * Len(argv) + 1 + (MaxAdapterCalls - adapter.calls)
      [] pc = "harness" -> MaxBuildCalls - Len(Current.built)
      [] OTHER -> 5 * (Len(argv) - Len(nodes)) + StepsLeft

\* a state short of the end has a next step; a script that only builds
\* registries dispatches nothing
NotStuck ==
    \/ Done
    \/ pc = "harness"
    \/ pc \in {"setup", "construct", "parse_command", "get_cmd_callable"}
    \/ /\ pc \in {"parse_cmd_args", "invoke"}
       /\ Current.callable.kind \in {"method", "class"}

\* every step brings the end nearer and leaves the run able to go on
Terminating == Variant' < Variant /\ Variant' >= 0 /\ NotStuck'

\* C29 as stated: dispatch terminates for every argument vector and every
\* tree, a self-reachable subtree type included; at most len(argv) - 1 nodes
\* are created; and the run ends in one leaf invocation, an
\* unrecognized-command exit, an argument-parse exit or a
\* registry-construction error.
C29_AsStated ==
    [][/\ Terminating
       /\ Len(nodes') <= Len(argv') - 1
       /\ (Done' /\ ~CompletionRun') =>
             \/ EndedInvoked'
             \/ EndedUnrecognized'
             \/ EndedParseExit'
             \/ EndedRegistryError']_vars

\* C29: dispatch terminates for every argument vector and every tree, a
\* self-reachable subtree type included (every step decreases a variant that
\* counts the argv tokens no node was created for); at most len(argv) nodes
\* are created (one per consumed token, and the last node may find none
\* left); and the run ends in one leaf invocation, an unrecognized-command
\* exit, an argument-parse exit, a registry-construction error, or an
\* uncaught error raised while the leaf's schema is built or its arguments
\* are parsed.
C29_Termination ==
    [][/\ Terminating
       /\ Len(nodes') <= Len(argv')
       /\ (Done' /\ ~CompletionRun') =>
             \/ EndedInvoked'
             \/ EndedUnrecognized'
             \/ EndedParseExit'
             \/ EndedRegistryError'
             \/ EndedSchemaCrash']_vars

\* `prog dump dump` on the self-reachable tree: three nodes for three tokens,
\* the third finds no command name and the parsing primitive exits
C29_Witness ==
    /\ prog = RecursiveProgram
    /\ argv = <<t_prog, t_dump, t_dump>>
    /\ Done
    /\ outcome = "exit2"
    /\ Len(nodes) = 3
    /\ nodes[2].cls = "Dump"
    /\ nodes[3].cls = "Dump"
    /\ nodes[3].level = 3

\* the build calls made on a node after its first
LaterCalls(i) == 2..Len(nodes[i].built)

\* C30: registry memoization is consistent with failure.  A repeated build
\* call leaves the node's registry as the call before left it, and a build
\* call that follows one that raised a fatal error raises that error again.
C30_MemoizationAndFailure ==
    \A i \in 1..Len(nodes) :
        \A n \in LaterCalls(i) :
            /\ nodes[i].built[n].commands = nodes[i].built[n - 1].commands
            /\ nodes[i].built[n - 1].raised # "" =>
                  nodes[i].built[n].raised = nodes[i].built[n - 1].raised

\* a strict node declaring Ab and ab: the first build call raises the
\* collision error and leaves `ab` registered, the second returns normally
C30_Witness ==
    /\ pc = "harness"
    /\ prog["Root"].strict_validation
    /\ ~prog["Root"].case_sensitive_commands
    /\ Len(nodes[1].built) = 2
    /\ nodes[1].built[1].raised = "CollisionError"
    /\ DOMAIN nodes[1].built[1].commands = {<<"a", "b">>}
    /\ nodes[1].built[2].raised = ""
    /\ nodes[1].commands = nodes[1].built[1].commands
====
